---- MODULE Spec2Model ----
(***************************************************************************)
(* A model of the MIPROv2 prompt optimizer of promptsicle (src/mipro.ts).  *)
(*                                                                         *)
(* Numbers.  JavaScript numbers are IEEE doubles.  A score is modelled as  *)
(* a record: a finite integer-valued double [k |-> "num", v |-> n], or one *)
(* of the three non-finite values NaN, +Infinity, -Infinity.  The          *)
(* comparison operators follow IEEE: every comparison with NaN is false.   *)
(*                                                                         *)
(* 32-bit words.  seedRandom's Mulberry32 works on 32-bit patterns, which  *)
(* do not fit the model checker's integers; a word is the pair <<hi, lo>>  *)
(* of its 16-bit halves.                                                   *)
(***************************************************************************)
EXTENDS Integers, Sequences, FiniteSets, TLC

(* ------------------------------ 32-bit words ---------------------------- *)

\* 2^16: the base of the two halves of a word.
W16 == 2 ^ 16

\* Bitwise XOR of two n-bit naturals (JavaScript ^ on one half of a word).
RECURSIVE XorBits(_, _, _)
XorBits(a, b, n) ==
  IF n = 0 THEN 0
  ELSE (((a % 2) + (b % 2)) % 2) + 2 * XorBits(a \div 2, b \div 2, n - 1)

\* Bitwise OR of two n-bit naturals (JavaScript | on one half of a word).
RECURSIVE OrBits(_, _, _)
OrBits(a, b, n) ==
  IF n = 0 THEN 0
  ELSE (IF (a % 2) + (b % 2) > 0 THEN 1 ELSE 0) + 2 * OrBits(a \div 2, b \div 2, n - 1)

\* x ^ y on 32-bit words.
WXor(x, y) == <<XorBits(x[1], y[1], 16), XorBits(x[2], y[2], 16)>>

\* x | y on 32-bit words.
WOr(x, y) == <<OrBits(x[1], y[1], 16), OrBits(x[2], y[2], 16)>>

\* x + y modulo 2^32 (the ToInt32 wrap of a JavaScript sum of two words).
WAdd(x, y) ==
  LET lo == x[2] + y[2]
      hi == x[1] + y[1] + (lo \div W16)
  IN  <<hi % W16, lo % W16>>

\* x >>> k, for 0 < k < 16.
WShr(x, k) ==
  <<x[1] \div (2 ^ k), ((x[1] % (2 ^ k)) * (2 ^ (16 - k))) + (x[2] \div (2 ^ k))>>

\* (a * b) mod 2^16 for 16-bit a, b, computed without exceeding 2^31.
MulLow16(a, b) == (((a % 256) * b) + ((((a \div 256) * b) % 256) * 256)) % W16

\* Math.imul(x, y): the low 32 bits of the product of two words.
Imul(x, y) ==
  LET p0 == (x[2] % 256) * y[2]
      p1 == (x[2] \div 256) * y[2]
      l  == p0 + ((p1 % 256) * 256)
      hi == (l \div W16) + (p1 \div 256) + MulLow16(x[1], y[2]) + MulLow16(x[2], y[1])
  IN  <<hi % W16, l % W16>>

\* The increment 0x6d2b79f5 of Mulberry32, as a word.
Golden == <<27947, 31221>>

\* A small natural as a word.
Word(n) == <<n \div W16, n % W16>>

(* seedRandom(seed): the closure variable t after `let t = seed + 0x6d2b79f5`. *)
(* t is a double in the code; only t mod 2^32 reaches the bit operations,      *)
(* so the model keeps t modulo 2^32.                                           *)
SeedState(seed) == WAdd(Word(seed), Golden)

\* The closure variable t after one call of the seeded Math.random.
NextT(t) == WAdd(t, Golden)

\* The last line of the seeded Math.random: ((v ^ (v >>> 14)) >>> 0), the numerator.
Mix3(v) == WXor(v, WShr(v, 14))

\* Its third line: v = (v + Math.imul(v ^ (v >>> 7), 61 | v)) ^ v, and on.
Mix2(v) == Mix3(WXor(WAdd(v, Imul(WXor(v, WShr(v, 7)), WOr(Word(61), v))), v))

\* Its second line: v = Math.imul(t ^ (t >>> 15), 1 | t), and on.
Mix1(t) == Mix2(Imul(WXor(t, WShr(t, 15)), WOr(Word(1), t)))

(* The 32-bit numerator of the value one call of the seeded Math.random     *)
(* returns when the closure variable is t BEFORE the call (its first line   *)
(* is t += 0x6d2b79f5): the result is Mulberry(t) / 2^32.                   *)
Mulberry(t) == Mix1(NextT(t))

\* Math.floor(Math.random() * n) for a draw with numerator v and 0 < n < 2^15.
FloorMul(v, n) == ((v[1] * n) + ((v[2] * n) \div W16)) \div W16

(* -------------------------------- numbers ------------------------------- *)

\* A finite score: the integer-valued double n.
Num(n) == [k |-> "num", v |-> n]

\* The JavaScript value NaN.
NaN == [k |-> "nan", v |-> 0]

\* The JavaScript value Infinity.
PosInf == [k |-> "inf", v |-> 0]

\* The JavaScript value -Infinity.
NegInf == [k |-> "ninf", v |-> 0]

\* isNaN(a).
IsNaN(a) == a.k = "nan"

\* Number.isFinite(a).
IsFinite(a) == a.k = "num"

\* a > b on doubles: false whenever an operand is NaN.
Gt(a, b) ==
  CASE a.k = "nan" \/ b.k = "nan" -> FALSE
    [] a.k = "inf" -> b.k # "inf"
    [] a.k = "ninf" -> FALSE
    [] OTHER -> (b.k = "ninf") \/ (b.k = "num" /\ a.v > b.v)

\* a >= b on doubles: false whenever an operand is NaN.
Ge(a, b) ==
  CASE a.k = "nan" \/ b.k = "nan" -> FALSE
    [] OTHER -> (a = b) \/ Gt(a, b)

\* a + b on doubles.
Add(a, b) ==
  CASE a.k = "nan" \/ b.k = "nan" -> NaN
    [] a.k = "inf" -> IF b.k = "ninf" THEN NaN ELSE PosInf
    [] a.k = "ninf" -> IF b.k = "inf" THEN NaN ELSE NegInf
    [] b.k = "num" -> Num(a.v + b.v)
    [] OTHER -> b

(* The comparator (a, b) => a - b as Array.prototype.sort reads it: the    *)
(* sign of a - b, and 0 when a - b is NaN (NaN operands, or two infinities *)
(* of the same sign).                                                      *)
Compare(a, b) ==
  CASE Gt(a, b) -> 1
    [] Gt(b, a) -> -1
    [] OTHER -> 0

(* [...arr].sort((a, b) => a - b) on the arrays the model reaches (shorter *)
(* than 64 elements): the engine counts the initial run, reverses it when  *)
(* it is strictly descending, and inserts the remaining elements by binary *)
(* insertion.  With NaN in the array the comparator is inconsistent and    *)
(* the result is the one this procedure produces.                          *)
Reverse(arr) == [i \in 1..Len(arr) |-> arr[Len(arr) + 1 - i]]

\* The length of the initial run of arr (Len(arr) >= 2), from index idx on.
RECURSIVE RunLength(_, _, _)
RunLength(arr, idx, desc) ==
  IF idx > Len(arr) THEN Len(arr)
  ELSE LET order == Compare(arr[idx], arr[idx - 1])
       IN  IF (desc /\ order >= 0) \/ (~desc /\ order < 0)
           THEN idx - 1
           ELSE RunLength(arr, idx + 1, desc)

\* The 0-based insertion point of pivot in arr[left..right-1] (0-based).
RECURSIVE BinarySearch(_, _, _, _)
BinarySearch(arr, pivot, left, right) ==
  IF left >= right THEN left
  ELSE LET mid == left + ((right - left) \div 2)
       IN  IF Compare(pivot, arr[mid + 1]) < 0
           THEN BinarySearch(arr, pivot, left, mid)
           ELSE BinarySearch(arr, pivot, mid + 1, right)

\* Binary insertion of arr[start+1..] (0-based start) into the sorted prefix.
RECURSIVE BinaryInsertionSort(_, _)
BinaryInsertionSort(arr, start) ==
  IF start >= Len(arr) THEN arr
  ELSE LET pivot == arr[start + 1]
           left  == BinarySearch(arr, pivot, 0, start)
           moved == SubSeq(arr, 1, left) \o <<pivot>> \o SubSeq(arr, left + 1, start)
                      \o SubSeq(arr, start + 2, Len(arr))
       IN  BinaryInsertionSort(moved, start + 1)

\* [...arr].sort((a, b) => a - b).
SortNumeric(arr) ==
  IF Len(arr) < 2 THEN arr
  ELSE LET desc == Compare(arr[2], arr[1]) < 0
           run  == RunLength(arr, 3, desc)
           head == IF desc THEN Reverse(SubSeq(arr, 1, run)) ELSE SubSeq(arr, 1, run)
       IN  BinaryInsertionSort(head \o SubSeq(arr, run + 1, Len(arr)), run)

(* ------------------------------- Surrogate ------------------------------ *)

(* Surrogate.median(arr), doubled: NaN for an empty array, else twice the   *)
(* middle element or the sum of the two middle elements.  The model keeps   *)
(* 2 * median so that the half of an odd sum stays an integer; a score is   *)
(* compared with it after doubling (score >= m  iff  2*score >= 2*m).       *)
Median2(arr) ==
  IF Len(arr) = 0 THEN NaN
  ELSE LET sorted == SortNumeric(arr)
           mid    == Len(arr) \div 2
       IN  IF Len(arr) % 2 = 1
           THEN Add(sorted[mid + 1], sorted[mid + 1])
           ELSE Add(sorted[mid], sorted[mid + 1])

\* A Surrogate as constructed: good = [], bad = [].
NewSurrogate == [good |-> <<>>, bad |-> <<>>]

\* An update that keeps only the scores it classifies as good.
UpdateDropsBad(sur, score) ==
  LET median2 == Median2(sur.good \o sur.bad)
  IN  IF IsNaN(median2) \/ Ge(Add(score, score), median2)
      THEN [sur EXCEPT !.good = Append(@, score)]
      ELSE sur

\* Surrogate.update(score): the surrogate after the call.
Update(sur, score) ==
  LET median2 == Median2(sur.good \o sur.bad)
  IN  IF IsNaN(median2) \/ Ge(Add(score, score), median2)
      THEN [sur EXCEPT !.good = Append(@, score)]
      ELSE [sur EXCEPT !.bad = Append(@, score)]

(* ---------------------- double arithmetic on utilities ------------------ *)
(* A utility is a double: NaN, or a number >= 0.  The model keeps a number  *)
(* as its significand n (below 2^53, seven bytes, low byte first) and the   *)
(* exponent e of its unit in the last place: the value is n * 2^e, with     *)
(* n >= 2^52 unless e is the least exponent, -1074 (subnormal numbers and   *)
(* 0).  A sum or a product is the exact result rounded to such a number,    *)
(* to the nearest with ties to the even significand, as IEEE 754 defines    *)
(* the JavaScript operators + and *.  Utilities stay far below the largest  *)
(* double, so no operation overflows to Infinity.                           *)

\* The n low bytes of a natural x < 2^31, little-endian.
RECURSIVE IntBytes(_, _)
IntBytes(x, n) == IF n = 0 THEN <<>> ELSE <<x % 256>> \o IntBytes(x \div 256, n - 1)

\* The four bytes of a 32-bit word, little-endian.
WordBytes(w) == IntBytes(w[2], 2) \o IntBytes(w[1], 2)

\* n zero bytes.
Zeros(n) == [i \in 1..n |-> 0]

\* The natural a (a byte sequence) as n bytes.
Sized(a, n) == [i \in 1..n |-> IF i <= Len(a) THEN a[i] ELSE 0]

\* TRUE iff the byte sequence is the natural 0.
IsZeroBytes(a) == \A i \in DOMAIN a : a[i] = 0

\* The exact sum of two naturals given as byte sequences of equal length, with carry c.
RECURSIVE BAdd(_, _, _)
BAdd(a, b, c) ==
  IF Len(a) = 0 THEN <<>>
  ELSE LET d == a[1] + b[1] + c
       IN  <<d % 256>> \o BAdd(Tail(a), Tail(b), d \div 256)

\* The exact product of the natural a by one byte m, plus carry c; Len(a) + 1 bytes.
RECURSIVE BScale(_, _, _)
BScale(a, m, c) ==
  IF Len(a) = 0 THEN <<c>>
  ELSE LET d == (a[1] * m) + c
       IN  <<d % 256>> \o BScale(Tail(a), m, d \div 256)

\* The exact product of the naturals a and b, as Len(a) + Len(b) bytes.
RECURSIVE BMul(_, _)
BMul(a, b) ==
  IF Len(a) = 0 THEN Zeros(Len(b))
  ELSE BAdd(BScale(b, a[1], 0) \o Zeros(Len(a) - 1),
            <<0>> \o BMul(Tail(a), b), 0)

\* a <= b for naturals given as byte sequences of equal length.
RECURSIVE BLe(_, _)
BLe(a, b) ==
  IF Len(a) = 0 THEN TRUE
  ELSE LET n == Len(a)
       IN  IF a[n] # b[n] THEN a[n] < b[n]
           ELSE BLe(SubSeq(a, 1, n - 1), SubSeq(b, 1, n - 1))

\* The natural a * 2^k.
BShl(a, k) == Zeros(k \div 8) \o BScale(a, 2 ^ (k % 8), 0)

\* The number of binary digits of a natural x < 256.
RECURSIVE Bits(_)
Bits(x) == IF x = 0 THEN 0 ELSE 1 + Bits(x \div 2)

\* The number of binary digits of the natural a.
RECURSIVE BitLen(_)
BitLen(a) ==
  IF Len(a) = 0 THEN 0
  ELSE IF a[Len(a)] # 0 THEN (8 * (Len(a) - 1)) + Bits(a[Len(a)])
       ELSE BitLen(SubSeq(a, 1, Len(a) - 1))

\* The exponent of the unit in the last place of the subnormal doubles.
MinExp == -1022 - 52

\* The utility NaN.
UNaN == [nan |-> TRUE, n |-> Zeros(7), e |-> MinExp]

\* The utility 0.
UZero == [nan |-> FALSE, n |-> Zeros(7), e |-> MinExp]

(* The double nearest to the exact value n * 2^e (n a natural as bytes):    *)
(* the significand is cut to 53 binary digits, or to the digits above       *)
(* 2^-1074; s low digits are dropped, and the result is rounded up when     *)
(* they are more than half a unit, or exactly half and the significand is   *)
(* odd.  The digits are dropped as q whole bytes after a shift to the left. *)
RoundToDouble(n, e) ==
  IF IsZeroBytes(n) THEN UZero
  ELSE LET len == BitLen(n)
           s   == IF len - 53 > MinExp - e THEN len - 53 ELSE MinExp - e
       IN  IF s <= 0
           THEN [nan |-> FALSE, n |-> Sized(BShl(n, -s), 7), e |-> e + s]
           ELSE LET q       == (s + 7) \div 8
                    shifted == Sized(BShl(n, (8 * q) - s), q + 7)
                    kept    == SubSeq(shifted, q + 1, q + 7)
                    top     == shifted[q]
                    below   == SubSeq(shifted, 1, q - 1)
                    up      == \/ top > 128
                               \/ top = 128 /\ (~IsZeroBytes(below) \/ kept[1] % 2 = 1)
                    rounded == IF up THEN BAdd(kept, <<1>> \o Zeros(6), 0) ELSE kept
                IN  IF rounded[7] >= 32
                    THEN [nan |-> FALSE, n |-> Zeros(6) \o <<16>>, e |-> e + s + 1]
                    ELSE [nan |-> FALSE, n |-> rounded, e |-> e + s]

\* The utility v / 2^32 of a PRNG draw with numerator v.
UDraw(v) == RoundToDouble(WordBytes(v), -32)

\* a + b on utilities.
UAdd(a, b) ==
  CASE a.nan \/ b.nan -> UNaN
    [] IsZeroBytes(a.n) -> b
    [] IsZeroBytes(b.n) -> a
    [] OTHER ->
         LET lo == IF a.e < b.e THEN a.e ELSE b.e
         IN  CASE a.e - lo > 60 -> a
               [] b.e - lo > 60 -> b
               [] OTHER -> RoundToDouble(BAdd(Sized(BShl(a.n, a.e - lo), 16),
                                              Sized(BShl(b.n, b.e - lo), 16), 0), lo)

\* a * b on utilities.
UMul(a, b) ==
  IF a.nan \/ b.nan THEN UNaN ELSE RoundToDouble(BMul(a.n, b.n), a.e + b.e)

\* a <= b on utilities.
ULe(a, b) ==
  /\ ~a.nan
  /\ ~b.nan
  /\ a.e < b.e \/ (a.e = b.e /\ BLe(a.n, b.n))

\* The test `r <= acc` with r = Math.random() * total, the draw having numerator v.
RLeAcc(v, total, acc) == ULe(UMul(UDraw(v), total), acc)

(* ---------------------------- Surrogate.utility ------------------------- *)

(* parzen(score, good) / (parzen(score, bad) + 1e-6) for finite scores: the *)
(* double that utility computes with median, std, Math.pow, Math.sqrt,      *)
(* Math.exp and the sums of parzen, for every pair of arrays good and bad   *)
(* (in the order of their pushes) that update builds from up to five scores *)
(* 1, 2, 3 or up to three scores 0, 1, 2, 3, and every such score x.  The   *)
(* model does not compute the exponential: it reads the result here, as     *)
(* significand n and exponent e.  Math.exp is the exponential of V8 (the    *)
(* fdlibm algorithm of its ieee754::exp), which the runtimes of the         *)
(* repository (Deno, Node) share; on 35 of the rows it is one unit in the   *)
(* last place above the exponential of the C library.                       *)
KdeTable ==
  {
    [good |-> <<1>>, bad |-> <<0>>, x |-> 0, n |-> <<0, 0, 0, 0, 0, 0, 0>>, e |-> -1074],
    [good |-> <<1>>, bad |-> <<0>>, x |-> 1, n |-> <<76, 196, 102, 72, 96, 199, 23>>, e |-> -24],
    [good |-> <<1>>, bad |-> <<0>>, x |-> 2, n |-> <<0, 0, 0, 0, 0, 0, 0>>, e |-> -1074],
    [good |-> <<1>>, bad |-> <<0>>, x |-> 3, n |-> <<0, 0, 0, 0, 0, 0, 0>>, e |-> -1074],
    [good |-> <<2>>, bad |-> <<0>>, x |-> 0, n |-> <<0, 0, 0, 0, 0, 0, 0>>, e |-> -1074],
    [good |-> <<2>>, bad |-> <<0>>, x |-> 1, n |-> <<0, 0, 0, 0, 0, 0, 0>>, e |-> -1074],
    [good |-> <<2>>, bad |-> <<0>>, x |-> 2, n |-> <<76, 196, 102, 72, 96, 199, 23>>, e |-> -24],
    [good |-> <<2>>, bad |-> <<0>>, x |-> 3, n |-> <<0, 0, 0, 0, 0, 0, 0>>, e |-> -1074],
    [good |-> <<2>>, bad |-> <<1>>, x |-> 0, n |-> <<0, 0, 0, 0, 0, 0, 0>>, e |-> -1074],
    [good |-> <<2>>, bad |-> <<1>>, x |-> 1, n |-> <<0, 0, 0, 0, 0, 0, 0>>, e |-> -1074],
    [good |-> <<2>>, bad |-> <<1>>, x |-> 2, n |-> <<76, 196, 102, 72, 96, 199, 23>>, e |-> -24],
    [good |-> <<2>>, bad |-> <<1>>, x |-> 3, n |-> <<0, 0, 0, 0, 0, 0, 0>>, e |-> -1074],
    [good |-> <<3>>, bad |-> <<0>>, x |-> 0, n |-> <<0, 0, 0, 0, 0, 0, 0>>, e |-> -1074],
    [good |-> <<3>>, bad |-> <<0>>, x |-> 1, n |-> <<0, 0, 0, 0, 0, 0, 0>>, e |-> -1074],
    [good |-> <<3>>, bad |-> <<0>>, x |-> 2, n |-> <<0, 0, 0, 0, 0, 0, 0>>, e |-> -1074],
    [good |-> <<3>>, bad |-> <<0>>, x |-> 3, n |-> <<76, 196, 102, 72, 96, 199, 23>>, e |-> -24],
    [good |-> <<3>>, bad |-> <<1>>, x |-> 0, n |-> <<0, 0, 0, 0, 0, 0, 0>>, e |-> -1074],
    [good |-> <<3>>, bad |-> <<1>>, x |-> 1, n |-> <<0, 0, 0, 0, 0, 0, 0>>, e |-> -1074],
    [good |-> <<3>>, bad |-> <<1>>, x |-> 2, n |-> <<0, 0, 0, 0, 0, 0, 0>>, e |-> -1074],
    [good |-> <<3>>, bad |-> <<1>>, x |-> 3, n |-> <<76, 196, 102, 72, 96, 199, 23>>, e |-> -24],
    [good |-> <<3>>, bad |-> <<2>>, x |-> 0, n |-> <<0, 0, 0, 0, 0, 0, 0>>, e |-> -1074],
    [good |-> <<3>>, bad |-> <<2>>, x |-> 1, n |-> <<0, 0, 0, 0, 0, 0, 0>>, e |-> -1074],
    [good |-> <<3>>, bad |-> <<2>>, x |-> 2, n |-> <<0, 0, 0, 0, 0, 0, 0>>, e |-> -1074],
    [good |-> <<3>>, bad |-> <<2>>, x |-> 3, n |-> <<76, 196, 102, 72, 96, 199, 23>>, e |-> -24],
    [good |-> <<0, 1>>, bad |-> <<0>>, x |-> 0, n |-> <<212, 182, 7, 128, 245, 108, 19>>, e |-> -62],
    [good |-> <<0, 1>>, bad |-> <<0>>, x |-> 1, n |-> <<249, 91, 82, 252, 176, 222, 28>>, e |-> -34],
    [good |-> <<0, 1>>, bad |-> <<0>>, x |-> 2, n |-> <<20, 205, 180, 72, 119, 86, 20>>, e |-> -37],
    [good |-> <<0, 1>>, bad |-> <<0>>, x |-> 3, n |-> <<6, 9, 83, 126, 164, 173, 18>>, e |-> -47],
    [good |-> <<0, 2>>, bad |-> <<0>>, x |-> 0, n |-> <<66, 112, 184, 12, 33, 112, 19>>, e |-> -63],
    [good |-> <<0, 2>>, bad |-> <<0>>, x |-> 1, n |-> <<9, 241, 76, 210, 156, 87, 29>>, e |-> -35],
    [good |-> <<0, 2>>, bad |-> <<0>>, x |-> 2, n |-> <<188, 19, 74, 23, 103, 227, 28>>, e |-> -35],
    [good |-> <<0, 2>>, bad |-> <<0>>, x |-> 3, n |-> <<12, 48, 249, 243, 206, 156, 29>>, e |-> -36],
    [good |-> <<0, 3>>, bad |-> <<0>>, x |-> 0, n |-> <<78, 178, 156, 63, 64, 236, 25>>, e |-> -64],
    [good |-> <<0, 3>>, bad |-> <<0>>, x |-> 1, n |-> <<142, 61, 216, 142, 157, 190, 19>>, e |-> -35],
    [good |-> <<0, 3>>, bad |-> <<0>>, x |-> 2, n |-> <<142, 61, 216, 142, 157, 190, 19>>, e |-> -35],
    [good |-> <<0, 3>>, bad |-> <<0>>, x |-> 3, n |-> <<22, 40, 123, 93, 81, 67, 19>>, e |-> -35],
    [good |-> <<0, 3>>, bad |-> <<1>>, x |-> 0, n |-> <<22, 40, 123, 93, 81, 67, 19>>, e |-> -35],
    [good |-> <<0, 3>>, bad |-> <<1>>, x |-> 1, n |-> <<218, 235, 26, 80, 45, 146, 26>>, e |-> -64],
    [good |-> <<0, 3>>, bad |-> <<1>>, x |-> 2, n |-> <<142, 61, 216, 142, 157, 190, 19>>, e |-> -35],
    [good |-> <<0, 3>>, bad |-> <<1>>, x |-> 3, n |-> <<22, 40, 123, 93, 81, 67, 19>>, e |-> -35],
    [good |-> <<1>>, bad |-> <<0, 0>>, x |-> 0, n |-> <<0, 0, 0, 0, 0, 0, 0>>, e |-> -1074],
    [good |-> <<1>>, bad |-> <<0, 0>>, x |-> 1, n |-> <<76, 196, 102, 72, 96, 199, 23>>, e |-> -24],
    [good |-> <<1>>, bad |-> <<0, 0>>, x |-> 2, n |-> <<0, 0, 0, 0, 0, 0, 0>>, e |-> -1074],
    [good |-> <<1>>, bad |-> <<0, 0>>, x |-> 3, n |-> <<0, 0, 0, 0, 0, 0, 0>>, e |-> -1074],
    [good |-> <<1, 1>>, bad |-> <<0>>, x |-> 0, n |-> <<0, 0, 0, 0, 0, 0, 0>>, e |-> -1074],
    [good |-> <<1, 1>>, bad |-> <<0>>, x |-> 1, n |-> <<76, 196, 102, 72, 96, 199, 23>>, e |-> -24],
    [good |-> <<1, 1>>, bad |-> <<0>>, x |-> 2, n |-> <<0, 0, 0, 0, 0, 0, 0>>, e |-> -1074],
    [good |-> <<1, 1>>, bad |-> <<0>>, x |-> 3, n |-> <<0, 0, 0, 0, 0, 0, 0>>, e |-> -1074],
    [good |-> <<1, 2>>, bad |-> <<0>>, x |-> 0, n |-> <<29, 99, 239, 19, 135, 94, 27>>, e |-> -66],
    [good |-> <<1, 2>>, bad |-> <<0>>, x |-> 1, n |-> <<249, 91, 82, 252, 176, 222, 28>>, e |-> -34],
    [good |-> <<1, 2>>, bad |-> <<0>>, x |-> 2, n |-> <<249, 91, 82, 252, 176, 222, 28>>, e |-> -34],
    [good |-> <<1, 2>>, bad |-> <<0>>, x |-> 3, n |-> <<20, 205, 180, 72, 119, 86, 20>>, e |-> -37],
    [good |-> <<1, 2>>, bad |-> <<1>>, x |-> 0, n |-> <<20, 205, 180, 72, 119, 86, 20>>, e |-> -37],
    [good |-> <<1, 2>>, bad |-> <<1>>, x |-> 1, n |-> <<212, 182, 7, 128, 245, 108, 19>>, e |-> -62],
    [good |-> <<1, 2>>, bad |-> <<1>>, x |-> 2, n |-> <<249, 91, 82, 252, 176, 222, 28>>, e |-> -34],
    [good |-> <<1, 2>>, bad |-> <<1>>, x |-> 3, n |-> <<20, 205, 180, 72, 119, 86, 20>>, e |-> -37],
    [good |-> <<1, 3>>, bad |-> <<0>>, x |-> 0, n |-> <<135, 130, 127, 245, 225, 236, 19>>, e |-> -64],
    [good |-> <<1, 3>>, bad |-> <<0>>, x |-> 1, n |-> <<188, 19, 74, 23, 103, 227, 28>>, e |-> -35],
    [good |-> <<1, 3>>, bad |-> <<0>>, x |-> 2, n |-> <<9, 241, 76, 210, 156, 87, 29>>, e |-> -35],
    [good |-> <<1, 3>>, bad |-> <<0>>, x |-> 3, n |-> <<188, 19, 74, 23, 103, 227, 28>>, e |-> -35],
    [good |-> <<1, 3>>, bad |-> <<1>>, x |-> 0, n |-> <<12, 48, 249, 243, 206, 156, 29>>, e |-> -36],
    [good |-> <<1, 3>>, bad |-> <<1>>, x |-> 1, n |-> <<66, 112, 184, 12, 33, 112, 19>>, e |-> -63],
    [good |-> <<1, 3>>, bad |-> <<1>>, x |-> 2, n |-> <<9, 241, 76, 210, 156, 87, 29>>, e |-> -35],
    [good |-> <<1, 3>>, bad |-> <<1>>, x |-> 3, n |-> <<188, 19, 74, 23, 103, 227, 28>>, e |-> -35],
    [good |-> <<2>>, bad |-> <<0, 0>>, x |-> 0, n |-> <<0, 0, 0, 0, 0, 0, 0>>, e |-> -1074],
    [good |-> <<2>>, bad |-> <<0, 0>>, x |-> 1, n |-> <<0, 0, 0, 0, 0, 0, 0>>, e |-> -1074],
    [good |-> <<2>>, bad |-> <<0, 0>>, x |-> 2, n |-> <<76, 196, 102, 72, 96, 199, 23>>, e |-> -24],
    [good |-> <<2>>, bad |-> <<0, 0>>, x |-> 3, n |-> <<0, 0, 0, 0, 0, 0, 0>>, e |-> -1074],
    [good |-> <<2>>, bad |-> <<1, 0>>, x |-> 0, n |-> <<0, 0, 0, 0, 0, 0, 0>>, e |-> -1074],
    [good |-> <<2>>, bad |-> <<1, 0>>, x |-> 1, n |-> <<0, 0, 0, 0, 0, 0, 0>>, e |-> -1074],
    [good |-> <<2>>, bad |-> <<1, 0>>, x |-> 2, n |-> <<59, 32, 140, 208, 232, 180, 18>>, e |-> -39],
    [good |-> <<2>>, bad |-> <<1, 0>>, x |-> 3, n |-> <<0, 0, 0, 0, 0, 0, 0>>, e |-> -1074],
    [good |-> <<2>>, bad |-> <<1, 1>>, x |-> 0, n |-> <<0, 0, 0, 0, 0, 0, 0>>, e |-> -1074],
    [good |-> <<2>>, bad |-> <<1, 1>>, x |-> 1, n |-> <<0, 0, 0, 0, 0, 0, 0>>, e |-> -1074],
    [good |-> <<2>>, bad |-> <<1, 1>>, x |-> 2, n |-> <<76, 196, 102, 72, 96, 199, 23>>, e |-> -24],
    [good |-> <<2>>, bad |-> <<1, 1>>, x |-> 3, n |-> <<0, 0, 0, 0, 0, 0, 0>>, e |-> -1074],
    [good |-> <<2, 1>>, bad |-> <<0>>, x |-> 0, n |-> <<29, 99, 239, 19, 135, 94, 27>>, e |-> -66],
    [good |-> <<2, 1>>, bad |-> <<0>>, x |-> 1, n |-> <<249, 91, 82, 252, 176, 222, 28>>, e |-> -34],
    [good |-> <<2, 1>>, bad |-> <<0>>, x |-> 2, n |-> <<249, 91, 82, 252, 176, 222, 28>>, e |-> -34],
    [good |-> <<2, 1>>, bad |-> <<0>>, x |-> 3, n |-> <<20, 205, 180, 72, 119, 86, 20>>, e |-> -37],
    [good |-> <<2, 2>>, bad |-> <<0>>, x |-> 0, n |-> <<0, 0, 0, 0, 0, 0, 0>>, e |-> -1074],
    [good |-> <<2, 2>>, bad |-> <<0>>, x |-> 1, n |-> <<0, 0, 0, 0, 0, 0, 0>>, e |-> -1074],
    [good |-> <<2, 2>>, bad |-> <<0>>, x |-> 2, n |-> <<76, 196, 102, 72, 96, 199, 23>>, e |-> -24],
    [good |-> <<2, 2>>, bad |-> <<0>>, x |-> 3, n |-> <<0, 0, 0, 0, 0, 0, 0>>, e |-> -1074],
    [good |-> <<2, 2>>, bad |-> <<1>>, x |-> 0, n |-> <<0, 0, 0, 0, 0, 0, 0>>, e |-> -1074],
    [good |-> <<2, 2>>, bad |-> <<1>>, x |-> 1, n |-> <<0, 0, 0, 0, 0, 0, 0>>, e |-> -1074],
    [good |-> <<2, 2>>, bad |-> <<1>>, x |-> 2, n |-> <<76, 196, 102, 72, 96, 199, 23>>, e |-> -24],
    [good |-> <<2, 2>>, bad |-> <<1>>, x |-> 3, n |-> <<0, 0, 0, 0, 0, 0, 0>>, e |-> -1074],
    [good |-> <<2, 3>>, bad |-> <<0>>, x |-> 0, n |-> <<55, 167, 192, 220, 211, 34, 25>>, e |-> -76],
    [good |-> <<2, 3>>, bad |-> <<0>>, x |-> 1, n |-> <<20, 205, 180, 72, 119, 86, 20>>, e |-> -37],
    [good |-> <<2, 3>>, bad |-> <<0>>, x |-> 2, n |-> <<249, 91, 82, 252, 176, 222, 28>>, e |-> -34],
    [good |-> <<2, 3>>, bad |-> <<0>>, x |-> 3, n |-> <<249, 91, 82, 252, 176, 222, 28>>, e |-> -34],
    [good |-> <<2, 3>>, bad |-> <<1>>, x |-> 0, n |-> <<6, 9, 83, 126, 164, 173, 18>>, e |-> -47],
    [good |-> <<2, 3>>, bad |-> <<1>>, x |-> 1, n |-> <<29, 99, 239, 19, 135, 94, 27>>, e |-> -66],
    [good |-> <<2, 3>>, bad |-> <<1>>, x |-> 2, n |-> <<249, 91, 82, 252, 176, 222, 28>>, e |-> -34],
    [good |-> <<2, 3>>, bad |-> <<1>>, x |-> 3, n |-> <<249, 91, 82, 252, 176, 222, 28>>, e |-> -34],
    [good |-> <<2, 3>>, bad |-> <<2>>, x |-> 0, n |-> <<6, 9, 83, 126, 164, 173, 18>>, e |-> -47],
    [good |-> <<2, 3>>, bad |-> <<2>>, x |-> 1, n |-> <<20, 205, 180, 72, 119, 86, 20>>, e |-> -37],
    [good |-> <<2, 3>>, bad |-> <<2>>, x |-> 2, n |-> <<212, 182, 7, 128, 245, 108, 19>>, e |-> -62],
    [good |-> <<2, 3>>, bad |-> <<2>>, x |-> 3, n |-> <<249, 91, 82, 252, 176, 222, 28>>, e |-> -34],
    [good |-> <<3>>, bad |-> <<0, 0>>, x |-> 0, n |-> <<0, 0, 0, 0, 0, 0, 0>>, e |-> -1074],
    [good |-> <<3>>, bad |-> <<0, 0>>, x |-> 1, n |-> <<0, 0, 0, 0, 0, 0, 0>>, e |-> -1074],
    [good |-> <<3>>, bad |-> <<0, 0>>, x |-> 2, n |-> <<0, 0, 0, 0, 0, 0, 0>>, e |-> -1074],
    [good |-> <<3>>, bad |-> <<0, 0>>, x |-> 3, n |-> <<76, 196, 102, 72, 96, 199, 23>>, e |-> -24],
    [good |-> <<3>>, bad |-> <<0, 1>>, x |-> 0, n |-> <<0, 0, 0, 0, 0, 0, 0>>, e |-> -1074],
    [good |-> <<3>>, bad |-> <<0, 1>>, x |-> 1, n |-> <<0, 0, 0, 0, 0, 0, 0>>, e |-> -1074],
    [good |-> <<3>>, bad |-> <<0, 1>>, x |-> 2, n |-> <<0, 0, 0, 0, 0, 0, 0>>, e |-> -1074],
    [good |-> <<3>>, bad |-> <<0, 1>>, x |-> 3, n |-> <<245, 74, 190, 57, 142, 214, 19>>, e |-> -29],
    [good |-> <<3>>, bad |-> <<1, 0>>, x |-> 0, n |-> <<0, 0, 0, 0, 0, 0, 0>>, e |-> -1074],
    [good |-> <<3>>, bad |-> <<1, 0>>, x |-> 1, n |-> <<0, 0, 0, 0, 0, 0, 0>>, e |-> -1074],
    [good |-> <<3>>, bad |-> <<1, 0>>, x |-> 2, n |-> <<0, 0, 0, 0, 0, 0, 0>>, e |-> -1074],
    [good |-> <<3>>, bad |-> <<1, 0>>, x |-> 3, n |-> <<245, 74, 190, 57, 142, 214, 19>>, e |-> -29],
    [good |-> <<3>>, bad |-> <<1, 1>>, x |-> 0, n |-> <<0, 0, 0, 0, 0, 0, 0>>, e |-> -1074],
    [good |-> <<3>>, bad |-> <<1, 1>>, x |-> 1, n |-> <<0, 0, 0, 0, 0, 0, 0>>, e |-> -1074],
    [good |-> <<3>>, bad |-> <<1, 1>>, x |-> 2, n |-> <<0, 0, 0, 0, 0, 0, 0>>, e |-> -1074],
    [good |-> <<3>>, bad |-> <<1, 1>>, x |-> 3, n |-> <<76, 196, 102, 72, 96, 199, 23>>, e |-> -24],
    [good |-> <<3>>, bad |-> <<2, 0>>, x |-> 0, n |-> <<0, 0, 0, 0, 0, 0, 0>>, e |-> -1074],
    [good |-> <<3>>, bad |-> <<2, 0>>, x |-> 1, n |-> <<0, 0, 0, 0, 0, 0, 0>>, e |-> -1074],
    [good |-> <<3>>, bad |-> <<2, 0>>, x |-> 2, n |-> <<0, 0, 0, 0, 0, 0, 0>>, e |-> -1074],
    [good |-> <<3>>, bad |-> <<2, 0>>, x |-> 3, n |-> <<37, 7, 1, 144, 27, 178, 25>>, e |-> -41],
    [good |-> <<3>>, bad |-> <<2, 1>>, x |-> 0, n |-> <<0, 0, 0, 0, 0, 0, 0>>, e |-> -1074],
    [good |-> <<3>>, bad |-> <<2, 1>>, x |-> 1, n |-> <<0, 0, 0, 0, 0, 0, 0>>, e |-> -1074],
    [good |-> <<3>>, bad |-> <<2, 1>>, x |-> 2, n |-> <<0, 0, 0, 0, 0, 0, 0>>, e |-> -1074],
    [good |-> <<3>>, bad |-> <<2, 1>>, x |-> 3, n |-> <<59, 32, 140, 208, 232, 180, 18>>, e |-> -39],
    [good |-> <<3>>, bad |-> <<2, 2>>, x |-> 0, n |-> <<0, 0, 0, 0, 0, 0, 0>>, e |-> -1074],
    [good |-> <<3>>, bad |-> <<2, 2>>, x |-> 1, n |-> <<0, 0, 0, 0, 0, 0, 0>>, e |-> -1074],
    [good |-> <<3>>, bad |-> <<2, 2>>, x |-> 2, n |-> <<0, 0, 0, 0, 0, 0, 0>>, e |-> -1074],
    [good |-> <<3>>, bad |-> <<2, 2>>, x |-> 3, n |-> <<76, 196, 102, 72, 96, 199, 23>>, e |-> -24],
    [good |-> <<3, 2>>, bad |-> <<0>>, x |-> 0, n |-> <<55, 167, 192, 220, 211, 34, 25>>, e |-> -76],
    [good |-> <<3, 2>>, bad |-> <<0>>, x |-> 1, n |-> <<20, 205, 180, 72, 119, 86, 20>>, e |-> -37],
    [good |-> <<3, 2>>, bad |-> <<0>>, x |-> 2, n |-> <<249, 91, 82, 252, 176, 222, 28>>, e |-> -34],
    [good |-> <<3, 2>>, bad |-> <<0>>, x |-> 3, n |-> <<249, 91, 82, 252, 176, 222, 28>>, e |-> -34],
    [good |-> <<3, 2>>, bad |-> <<1>>, x |-> 0, n |-> <<6, 9, 83, 126, 164, 173, 18>>, e |-> -47],
    [good |-> <<3, 2>>, bad |-> <<1>>, x |-> 1, n |-> <<29, 99, 239, 19, 135, 94, 27>>, e |-> -66],
    [good |-> <<3, 2>>, bad |-> <<1>>, x |-> 2, n |-> <<249, 91, 82, 252, 176, 222, 28>>, e |-> -34],
    [good |-> <<3, 2>>, bad |-> <<1>>, x |-> 3, n |-> <<249, 91, 82, 252, 176, 222, 28>>, e |-> -34],
    [good |-> <<3, 3>>, bad |-> <<0>>, x |-> 0, n |-> <<0, 0, 0, 0, 0, 0, 0>>, e |-> -1074],
    [good |-> <<3, 3>>, bad |-> <<0>>, x |-> 1, n |-> <<0, 0, 0, 0, 0, 0, 0>>, e |-> -1074],
    [good |-> <<3, 3>>, bad |-> <<0>>, x |-> 2, n |-> <<0, 0, 0, 0, 0, 0, 0>>, e |-> -1074],
    [good |-> <<3, 3>>, bad |-> <<0>>, x |-> 3, n |-> <<76, 196, 102, 72, 96, 199, 23>>, e |-> -24],
    [good |-> <<3, 3>>, bad |-> <<1>>, x |-> 0, n |-> <<0, 0, 0, 0, 0, 0, 0>>, e |-> -1074],
    [good |-> <<3, 3>>, bad |-> <<1>>, x |-> 1, n |-> <<0, 0, 0, 0, 0, 0, 0>>, e |-> -1074],
    [good |-> <<3, 3>>, bad |-> <<1>>, x |-> 2, n |-> <<0, 0, 0, 0, 0, 0, 0>>, e |-> -1074],
    [good |-> <<3, 3>>, bad |-> <<1>>, x |-> 3, n |-> <<76, 196, 102, 72, 96, 199, 23>>, e |-> -24],
    [good |-> <<3, 3>>, bad |-> <<2>>, x |-> 0, n |-> <<0, 0, 0, 0, 0, 0, 0>>, e |-> -1074],
    [good |-> <<3, 3>>, bad |-> <<2>>, x |-> 1, n |-> <<0, 0, 0, 0, 0, 0, 0>>, e |-> -1074],
    [good |-> <<3, 3>>, bad |-> <<2>>, x |-> 2, n |-> <<0, 0, 0, 0, 0, 0, 0>>, e |-> -1074],
    [good |-> <<3, 3>>, bad |-> <<2>>, x |-> 3, n |-> <<76, 196, 102, 72, 96, 199, 23>>, e |-> -24],
    [good |-> <<1, 2, 1>>, bad |-> <<1>>, x |-> 1, n |-> <<109, 150, 77, 201, 0, 153, 23>>, e |-> -62],
    [good |-> <<1, 2, 1>>, bad |-> <<1>>, x |-> 2, n |-> <<35, 74, 143, 139, 75, 173, 20>>, e |-> -34],
    [good |-> <<1, 2, 1>>, bad |-> <<1>>, x |-> 3, n |-> <<29, 57, 74, 102, 46, 211, 16>>, e |-> -37],
    [good |-> <<1, 2, 2>>, bad |-> <<1>>, x |-> 1, n |-> <<238, 69, 220, 113, 96, 211, 27>>, e |-> -63],
    [good |-> <<1, 2, 2>>, bad |-> <<1>>, x |-> 2, n |-> <<198, 204, 182, 14, 255, 136, 17>>, e |-> -33],
    [good |-> <<1, 2, 2>>, bad |-> <<1>>, x |-> 3, n |-> <<191, 131, 244, 140, 253, 197, 16>>, e |-> -36],
    [good |-> <<1, 2, 3>>, bad |-> <<1>>, x |-> 1, n |-> <<127, 181, 27, 233, 25, 138, 21>>, e |-> -63],
    [good |-> <<1, 2, 3>>, bad |-> <<1>>, x |-> 2, n |-> <<158, 150, 205, 118, 155, 248, 19>>, e |-> -34],
    [good |-> <<1, 2, 3>>, bad |-> <<1>>, x |-> 3, n |-> <<136, 129, 99, 64, 118, 1, 16>>, e |-> -34],
    [good |-> <<1, 3, 1>>, bad |-> <<1>>, x |-> 1, n |-> <<201, 35, 2, 221, 161, 157, 23>>, e |-> -63],
    [good |-> <<1, 3, 1>>, bad |-> <<1>>, x |-> 2, n |-> <<131, 143, 1, 207, 122, 135, 29>>, e |-> -35],
    [good |-> <<1, 3, 1>>, bad |-> <<1>>, x |-> 3, n |-> <<176, 246, 247, 29, 46, 174, 20>>, e |-> -35],
    [good |-> <<1, 3, 2>>, bad |-> <<1>>, x |-> 1, n |-> <<128, 181, 27, 233, 25, 138, 21>>, e |-> -63],
    [good |-> <<1, 3, 2>>, bad |-> <<1>>, x |-> 2, n |-> <<158, 150, 205, 118, 155, 248, 19>>, e |-> -34],
    [good |-> <<1, 3, 2>>, bad |-> <<1>>, x |-> 3, n |-> <<136, 129, 99, 64, 118, 1, 16>>, e |-> -34],
    [good |-> <<1, 3, 3>>, bad |-> <<1>>, x |-> 1, n |-> <<215, 96, 199, 89, 145, 212, 27>>, e |-> -64],
    [good |-> <<1, 3, 3>>, bad |-> <<1>>, x |-> 2, n |-> <<131, 143, 1, 207, 122, 135, 29>>, e |-> -35],
    [good |-> <<1, 3, 3>>, bad |-> <<1>>, x |-> 3, n |-> <<159, 246, 128, 172, 111, 140, 17>>, e |-> -34],
    [good |-> <<1, 3, 3>>, bad |-> <<2>>, x |-> 1, n |-> <<176, 246, 247, 29, 46, 174, 20>>, e |-> -35],
    [good |-> <<1, 3, 3>>, bad |-> <<2>>, x |-> 2, n |-> <<129, 242, 200, 0, 136, 222, 19>>, e |-> -63],
    [good |-> <<1, 3, 3>>, bad |-> <<2>>, x |-> 3, n |-> <<159, 246, 128, 172, 111, 140, 17>>, e |-> -34],
    [good |-> <<2, 1>>, bad |-> <<1, 1>>, x |-> 1, n |-> <<212, 182, 7, 128, 245, 108, 19>>, e |-> -62],
    [good |-> <<2, 1>>, bad |-> <<1, 1>>, x |-> 2, n |-> <<249, 91, 82, 252, 176, 222, 28>>, e |-> -34],
    [good |-> <<2, 1>>, bad |-> <<1, 1>>, x |-> 3, n |-> <<20, 205, 180, 72, 119, 86, 20>>, e |-> -37],
    [good |-> <<2, 2>>, bad |-> <<1, 1>>, x |-> 1, n |-> <<0, 0, 0, 0, 0, 0, 0>>, e |-> -1074],
    [good |-> <<2, 2>>, bad |-> <<1, 1>>, x |-> 2, n |-> <<76, 196, 102, 72, 96, 199, 23>>, e |-> -24],
    [good |-> <<2, 2>>, bad |-> <<1, 1>>, x |-> 3, n |-> <<0, 0, 0, 0, 0, 0, 0>>, e |-> -1074],
    [good |-> <<2, 2, 2>>, bad |-> <<1>>, x |-> 1, n |-> <<0, 0, 0, 0, 0, 0, 0>>, e |-> -1074],
    [good |-> <<2, 2, 2>>, bad |-> <<1>>, x |-> 2, n |-> <<76, 196, 102, 72, 96, 199, 23>>, e |-> -24],
    [good |-> <<2, 2, 2>>, bad |-> <<1>>, x |-> 3, n |-> <<0, 0, 0, 0, 0, 0, 0>>, e |-> -1074],
    [good |-> <<2, 2, 3>>, bad |-> <<1>>, x |-> 1, n |-> <<222, 165, 139, 160, 147, 146, 22>>, e |-> -65],
    [good |-> <<2, 2, 3>>, bad |-> <<1>>, x |-> 2, n |-> <<198, 204, 182, 14, 255, 136, 17>>, e |-> -33],
    [good |-> <<2, 2, 3>>, bad |-> <<1>>, x |-> 3, n |-> <<35, 74, 143, 139, 75, 173, 20>>, e |-> -34],
    [good |-> <<2, 3>>, bad |-> <<1, 1>>, x |-> 1, n |-> <<29, 99, 239, 19, 135, 94, 27>>, e |-> -66],
    [good |-> <<2, 3>>, bad |-> <<1, 1>>, x |-> 2, n |-> <<249, 91, 82, 252, 176, 222, 28>>, e |-> -34],
    [good |-> <<2, 3>>, bad |-> <<1, 1>>, x |-> 3, n |-> <<249, 91, 82, 252, 176, 222, 28>>, e |-> -34],
    [good |-> <<2, 3>>, bad |-> <<2, 1>>, x |-> 1, n |-> <<214, 54, 99, 29, 242, 138, 22>>, e |-> -56],
    [good |-> <<2, 3>>, bad |-> <<2, 1>>, x |-> 2, n |-> <<100, 156, 250, 144, 251, 255, 31>>, e |-> -53],
    [good |-> <<2, 3>>, bad |-> <<2, 1>>, x |-> 3, n |-> <<44, 224, 247, 163, 56, 182, 22>>, e |-> -49],
    [good |-> <<2, 3, 2>>, bad |-> <<1>>, x |-> 1, n |-> <<222, 165, 139, 160, 147, 146, 22>>, e |-> -65],
    [good |-> <<2, 3, 2>>, bad |-> <<1>>, x |-> 2, n |-> <<198, 204, 182, 14, 255, 136, 17>>, e |-> -33],
    [good |-> <<2, 3, 2>>, bad |-> <<1>>, x |-> 3, n |-> <<35, 74, 143, 139, 75, 173, 20>>, e |-> -34],
    [good |-> <<2, 3, 2>>, bad |-> <<2>>, x |-> 1, n |-> <<191, 131, 244, 140, 253, 197, 16>>, e |-> -36],
    [good |-> <<2, 3, 2>>, bad |-> <<2>>, x |-> 2, n |-> <<109, 150, 77, 201, 0, 153, 23>>, e |-> -62],
    [good |-> <<2, 3, 2>>, bad |-> <<2>>, x |-> 3, n |-> <<35, 74, 143, 139, 75, 173, 20>>, e |-> -34],
    [good |-> <<2, 3, 3>>, bad |-> <<1>>, x |-> 1, n |-> <<93, 159, 67, 249, 83, 164, 22>>, e |-> -66],
    [good |-> <<2, 3, 3>>, bad |-> <<1>>, x |-> 2, n |-> <<35, 74, 143, 139, 75, 173, 20>>, e |-> -34],
    [good |-> <<2, 3, 3>>, bad |-> <<1>>, x |-> 3, n |-> <<198, 204, 182, 14, 255, 136, 17>>, e |-> -33],
    [good |-> <<2, 3, 3>>, bad |-> <<2>>, x |-> 1, n |-> <<29, 57, 74, 102, 46, 211, 16>>, e |-> -37],
    [good |-> <<2, 3, 3>>, bad |-> <<2>>, x |-> 2, n |-> <<238, 69, 220, 113, 96, 211, 27>>, e |-> -63],
    [good |-> <<2, 3, 3>>, bad |-> <<2>>, x |-> 3, n |-> <<198, 204, 182, 14, 255, 136, 17>>, e |-> -33],
    [good |-> <<3>>, bad |-> <<2, 1, 1>>, x |-> 1, n |-> <<0, 0, 0, 0, 0, 0, 0>>, e |-> -1074],
    [good |-> <<3>>, bad |-> <<2, 1, 1>>, x |-> 2, n |-> <<0, 0, 0, 0, 0, 0, 0>>, e |-> -1074],
    [good |-> <<3>>, bad |-> <<2, 1, 1>>, x |-> 3, n |-> <<111, 126, 127, 108, 190, 156, 22>>, e |-> -39],
    [good |-> <<3>>, bad |-> <<2, 2, 1>>, x |-> 1, n |-> <<0, 0, 0, 0, 0, 0, 0>>, e |-> -1074],
    [good |-> <<3>>, bad |-> <<2, 2, 1>>, x |-> 2, n |-> <<0, 0, 0, 0, 0, 0, 0>>, e |-> -1074],
    [good |-> <<3>>, bad |-> <<2, 2, 1>>, x |-> 3, n |-> <<161, 243, 224, 68, 156, 174, 22>>, e |-> -40],
    [good |-> <<3, 1>>, bad |-> <<1, 1>>, x |-> 1, n |-> <<66, 112, 184, 12, 33, 112, 19>>, e |-> -63],
    [good |-> <<3, 1>>, bad |-> <<1, 1>>, x |-> 2, n |-> <<9, 241, 76, 210, 156, 87, 29>>, e |-> -35],
    [good |-> <<3, 1>>, bad |-> <<1, 1>>, x |-> 3, n |-> <<188, 19, 74, 23, 103, 227, 28>>, e |-> -35],
    [good |-> <<3, 2>>, bad |-> <<1, 1>>, x |-> 1, n |-> <<29, 99, 239, 19, 135, 94, 27>>, e |-> -66],
    [good |-> <<3, 2>>, bad |-> <<1, 1>>, x |-> 2, n |-> <<249, 91, 82, 252, 176, 222, 28>>, e |-> -34],
    [good |-> <<3, 2>>, bad |-> <<1, 1>>, x |-> 3, n |-> <<249, 91, 82, 252, 176, 222, 28>>, e |-> -34],
    [good |-> <<3, 2>>, bad |-> <<2, 1>>, x |-> 1, n |-> <<214, 54, 99, 29, 242, 138, 22>>, e |-> -56],
    [good |-> <<3, 2>>, bad |-> <<2, 1>>, x |-> 2, n |-> <<100, 156, 250, 144, 251, 255, 31>>, e |-> -53],
    [good |-> <<3, 2>>, bad |-> <<2, 1>>, x |-> 3, n |-> <<44, 224, 247, 163, 56, 182, 22>>, e |-> -49],
    [good |-> <<3, 2>>, bad |-> <<2, 2>>, x |-> 1, n |-> <<20, 205, 180, 72, 119, 86, 20>>, e |-> -37],
    [good |-> <<3, 2>>, bad |-> <<2, 2>>, x |-> 2, n |-> <<212, 182, 7, 128, 245, 108, 19>>, e |-> -62],
    [good |-> <<3, 2>>, bad |-> <<2, 2>>, x |-> 3, n |-> <<249, 91, 82, 252, 176, 222, 28>>, e |-> -34],
    [good |-> <<3, 2, 2>>, bad |-> <<1>>, x |-> 1, n |-> <<222, 165, 139, 160, 147, 146, 22>>, e |-> -65],
    [good |-> <<3, 2, 2>>, bad |-> <<1>>, x |-> 2, n |-> <<198, 204, 182, 14, 255, 136, 17>>, e |-> -33],
    [good |-> <<3, 2, 2>>, bad |-> <<1>>, x |-> 3, n |-> <<35, 74, 143, 139, 75, 173, 20>>, e |-> -34],
    [good |-> <<3, 2, 3>>, bad |-> <<1>>, x |-> 1, n |-> <<93, 159, 67, 249, 83, 164, 22>>, e |-> -66],
    [good |-> <<3, 2, 3>>, bad |-> <<1>>, x |-> 2, n |-> <<35, 74, 143, 139, 75, 173, 20>>, e |-> -34],
    [good |-> <<3, 2, 3>>, bad |-> <<1>>, x |-> 3, n |-> <<198, 204, 182, 14, 255, 136, 17>>, e |-> -33],
    [good |-> <<3, 3>>, bad |-> <<1, 1>>, x |-> 1, n |-> <<0, 0, 0, 0, 0, 0, 0>>, e |-> -1074],
    [good |-> <<3, 3>>, bad |-> <<1, 1>>, x |-> 2, n |-> <<0, 0, 0, 0, 0, 0, 0>>, e |-> -1074],
    [good |-> <<3, 3>>, bad |-> <<1, 1>>, x |-> 3, n |-> <<76, 196, 102, 72, 96, 199, 23>>, e |-> -24],
    [good |-> <<3, 3>>, bad |-> <<1, 2>>, x |-> 1, n |-> <<0, 0, 0, 0, 0, 0, 0>>, e |-> -1074],
    [good |-> <<3, 3>>, bad |-> <<1, 2>>, x |-> 2, n |-> <<0, 0, 0, 0, 0, 0, 0>>, e |-> -1074],
    [good |-> <<3, 3>>, bad |-> <<1, 2>>, x |-> 3, n |-> <<59, 32, 140, 208, 232, 180, 18>>, e |-> -39],
    [good |-> <<3, 3>>, bad |-> <<2, 1>>, x |-> 1, n |-> <<0, 0, 0, 0, 0, 0, 0>>, e |-> -1074],
    [good |-> <<3, 3>>, bad |-> <<2, 1>>, x |-> 2, n |-> <<0, 0, 0, 0, 0, 0, 0>>, e |-> -1074],
    [good |-> <<3, 3>>, bad |-> <<2, 1>>, x |-> 3, n |-> <<59, 32, 140, 208, 232, 180, 18>>, e |-> -39],
    [good |-> <<3, 3>>, bad |-> <<2, 2>>, x |-> 1, n |-> <<0, 0, 0, 0, 0, 0, 0>>, e |-> -1074],
    [good |-> <<3, 3>>, bad |-> <<2, 2>>, x |-> 2, n |-> <<0, 0, 0, 0, 0, 0, 0>>, e |-> -1074],
    [good |-> <<3, 3>>, bad |-> <<2, 2>>, x |-> 3, n |-> <<76, 196, 102, 72, 96, 199, 23>>, e |-> -24],
    [good |-> <<3, 3, 3>>, bad |-> <<1>>, x |-> 1, n |-> <<0, 0, 0, 0, 0, 0, 0>>, e |-> -1074],
    [good |-> <<3, 3, 3>>, bad |-> <<1>>, x |-> 2, n |-> <<0, 0, 0, 0, 0, 0, 0>>, e |-> -1074],
    [good |-> <<3, 3, 3>>, bad |-> <<1>>, x |-> 3, n |-> <<76, 196, 102, 72, 96, 199, 23>>, e |-> -24],
    [good |-> <<3, 3, 3>>, bad |-> <<2>>, x |-> 1, n |-> <<0, 0, 0, 0, 0, 0, 0>>, e |-> -1074],
    [good |-> <<3, 3, 3>>, bad |-> <<2>>, x |-> 2, n |-> <<0, 0, 0, 0, 0, 0, 0>>, e |-> -1074],
    [good |-> <<3, 3, 3>>, bad |-> <<2>>, x |-> 3, n |-> <<76, 196, 102, 72, 96, 199, 23>>, e |-> -24],
    [good |-> <<1, 1, 2, 2>>, bad |-> <<1>>, x |-> 1, n |-> <<217, 204, 180, 255, 164, 70, 21>>, e |-> -62],
    [good |-> <<1, 1, 2, 2>>, bad |-> <<1>>, x |-> 2, n |-> <<154, 53, 57, 221, 171, 158, 31>>, e |-> -34],
    [good |-> <<1, 1, 2, 2>>, bad |-> <<1>>, x |-> 3, n |-> <<77, 187, 170, 255, 230, 38, 22>>, e |-> -38],
    [good |-> <<1, 1, 2, 3>>, bad |-> <<1>>, x |-> 1, n |-> <<124, 103, 146, 98, 160, 231, 27>>, e |-> -63],
    [good |-> <<1, 1, 2, 3>>, bad |-> <<1>>, x |-> 2, n |-> <<101, 52, 142, 100, 50, 24, 18>>, e |-> -34],
    [good |-> <<1, 1, 2, 3>>, bad |-> <<1>>, x |-> 3, n |-> <<86, 151, 26, 36, 201, 71, 24>>, e |-> -35],
    [good |-> <<1, 1, 3, 2>>, bad |-> <<1>>, x |-> 1, n |-> <<124, 103, 146, 98, 160, 231, 27>>, e |-> -63],
    [good |-> <<1, 1, 3, 2>>, bad |-> <<1>>, x |-> 2, n |-> <<101, 52, 142, 100, 50, 24, 18>>, e |-> -34],
    [good |-> <<1, 1, 3, 2>>, bad |-> <<1>>, x |-> 3, n |-> <<86, 151, 26, 36, 201, 71, 24>>, e |-> -35],
    [good |-> <<1, 1, 3, 3>>, bad |-> <<1>>, x |-> 1, n |-> <<29, 190, 49, 93, 151, 75, 21>>, e |-> -63],
    [good |-> <<1, 1, 3, 3>>, bad |-> <<1>>, x |-> 2, n |-> <<161, 200, 60, 183, 25, 244, 27>>, e |-> -35],
    [good |-> <<1, 1, 3, 3>>, bad |-> <<1>>, x |-> 3, n |-> <<226, 116, 204, 231, 5, 166, 31>>, e |-> -35],
    [good |-> <<1, 2, 1, 1>>, bad |-> <<1>>, x |-> 1, n |-> <<139, 203, 54, 17, 129, 251, 30>>, e |-> -62],
    [good |-> <<1, 2, 1, 1>>, bad |-> <<1>>, x |-> 2, n |-> <<127, 169, 68, 169, 187, 49, 17>>, e |-> -34],
    [good |-> <<1, 2, 1, 1>>, bad |-> <<1>>, x |-> 3, n |-> <<175, 91, 254, 169, 253, 39, 22>>, e |-> -39],
    [good |-> <<1, 2, 1, 2>>, bad |-> <<1>>, x |-> 1, n |-> <<217, 204, 180, 255, 164, 70, 21>>, e |-> -62],
    [good |-> <<1, 2, 1, 2>>, bad |-> <<1>>, x |-> 2, n |-> <<154, 53, 57, 221, 171, 158, 31>>, e |-> -34],
    [good |-> <<1, 2, 1, 2>>, bad |-> <<1>>, x |-> 3, n |-> <<76, 187, 170, 255, 230, 38, 22>>, e |-> -38],
    [good |-> <<1, 2, 1, 3>>, bad |-> <<1>>, x |-> 1, n |-> <<124, 103, 146, 98, 160, 231, 27>>, e |-> -63],
    [good |-> <<1, 2, 1, 3>>, bad |-> <<1>>, x |-> 2, n |-> <<101, 52, 142, 100, 50, 24, 18>>, e |-> -34],
    [good |-> <<1, 2, 1, 3>>, bad |-> <<1>>, x |-> 3, n |-> <<86, 151, 26, 36, 201, 71, 24>>, e |-> -35],
    [good |-> <<1, 2, 2>>, bad |-> <<1, 1>>, x |-> 1, n |-> <<238, 69, 220, 113, 96, 211, 27>>, e |-> -63],
    [good |-> <<1, 2, 2>>, bad |-> <<1, 1>>, x |-> 2, n |-> <<198, 204, 182, 14, 255, 136, 17>>, e |-> -33],
    [good |-> <<1, 2, 2>>, bad |-> <<1, 1>>, x |-> 3, n |-> <<191, 131, 244, 140, 253, 197, 16>>, e |-> -36],
    [good |-> <<1, 2, 2, 2>>, bad |-> <<1>>, x |-> 1, n |-> <<79, 156, 101, 220, 145, 35, 23>>, e |-> -63],
    [good |-> <<1, 2, 2, 2>>, bad |-> <<1>>, x |-> 2, n |-> <<219, 224, 150, 8, 206, 5, 23>>, e |-> -33],
    [good |-> <<1, 2, 2, 2>>, bad |-> <<1>>, x |-> 3, n |-> <<97, 36, 43, 149, 231, 156, 16>>, e |-> -37],
    [good |-> <<1, 2, 2, 3>>, bad |-> <<1>>, x |-> 1, n |-> <<42, 74, 83, 70, 187, 146, 20>>, e |-> -63],
    [good |-> <<1, 2, 2, 3>>, bad |-> <<1>>, x |-> 2, n |-> <<236, 159, 243, 254, 139, 246, 25>>, e |-> -34],
    [good |-> <<1, 2, 2, 3>>, bad |-> <<1>>, x |-> 3, n |-> <<188, 166, 23, 253, 73, 147, 30>>, e |-> -35],
    [good |-> <<1, 2, 3>>, bad |-> <<1, 1>>, x |-> 1, n |-> <<127, 181, 27, 233, 25, 138, 21>>, e |-> -63],
    [good |-> <<1, 2, 3>>, bad |-> <<1, 1>>, x |-> 2, n |-> <<158, 150, 205, 118, 155, 248, 19>>, e |-> -34],
    [good |-> <<1, 2, 3>>, bad |-> <<1, 1>>, x |-> 3, n |-> <<136, 129, 99, 64, 118, 1, 16>>, e |-> -34],
    [good |-> <<1, 2, 3, 2>>, bad |-> <<1>>, x |-> 1, n |-> <<42, 74, 83, 70, 187, 146, 20>>, e |-> -63],
    [good |-> <<1, 2, 3, 2>>, bad |-> <<1>>, x |-> 2, n |-> <<236, 159, 243, 254, 139, 246, 25>>, e |-> -34],
    [good |-> <<1, 2, 3, 2>>, bad |-> <<1>>, x |-> 3, n |-> <<188, 166, 23, 253, 73, 147, 30>>, e |-> -35],
    [good |-> <<1, 2, 3, 3>>, bad |-> <<1>>, x |-> 1, n |-> <<30, 24, 169, 22, 103, 86, 16>>, e |-> -63],
    [good |-> <<1, 2, 3, 3>>, bad |-> <<1>>, x |-> 2, n |-> <<101, 52, 142, 100, 50, 24, 18>>, e |-> -34],
    [good |-> <<1, 2, 3, 3>>, bad |-> <<1>>, x |-> 3, n |-> <<234, 99, 33, 171, 87, 188, 20>>, e |-> -34],
    [good |-> <<1, 2, 3, 3>>, bad |-> <<2>>, x |-> 1, n |-> <<86, 151, 26, 36, 201, 71, 24>>, e |-> -35],
    [good |-> <<1, 2, 3, 3>>, bad |-> <<2>>, x |-> 2, n |-> <<59, 152, 2, 145, 182, 89, 24>>, e |-> -63],
    [good |-> <<1, 2, 3, 3>>, bad |-> <<2>>, x |-> 3, n |-> <<234, 99, 33, 171, 87, 188, 20>>, e |-> -34],
    [good |-> <<1, 3, 1, 1>>, bad |-> <<1>>, x |-> 1, n |-> <<119, 74, 128, 229, 115, 4, 31>>, e |-> -63],
    [good |-> <<1, 3, 1, 1>>, bad |-> <<1>>, x |-> 2, n |-> <<161, 200, 60, 183, 25, 244, 27>>, e |-> -35],
    [good |-> <<1, 3, 1, 1>>, bad |-> <<1>>, x |-> 3, n |-> <<102, 40, 55, 43, 35, 51, 17>>, e |-> -35],
    [good |-> <<1, 3, 1, 2>>, bad |-> <<1>>, x |-> 1, n |-> <<126, 103, 146, 98, 160, 231, 27>>, e |-> -63],
    [good |-> <<1, 3, 1, 2>>, bad |-> <<1>>, x |-> 2, n |-> <<101, 52, 142, 100, 50, 24, 18>>, e |-> -34],
    [good |-> <<1, 3, 1, 2>>, bad |-> <<1>>, x |-> 3, n |-> <<86, 151, 26, 36, 201, 71, 24>>, e |-> -35],
    [good |-> <<1, 3, 1, 3>>, bad |-> <<1>>, x |-> 1, n |-> <<29, 190, 49, 93, 151, 75, 21>>, e |-> -63],
    [good |-> <<1, 3, 1, 3>>, bad |-> <<1>>, x |-> 2, n |-> <<161, 200, 60, 183, 25, 244, 27>>, e |-> -35],
    [good |-> <<1, 3, 1, 3>>, bad |-> <<1>>, x |-> 3, n |-> <<226, 116, 204, 231, 5, 166, 31>>, e |-> -35],
    [good |-> <<1, 3, 2>>, bad |-> <<1, 1>>, x |-> 1, n |-> <<128, 181, 27, 233, 25, 138, 21>>, e |-> -63],
    [good |-> <<1, 3, 2>>, bad |-> <<1, 1>>, x |-> 2, n |-> <<158, 150, 205, 118, 155, 248, 19>>, e |-> -34],
    [good |-> <<1, 3, 2>>, bad |-> <<1, 1>>, x |-> 3, n |-> <<136, 129, 99, 64, 118, 1, 16>>, e |-> -34],
    [good |-> <<1, 3, 2, 2>>, bad |-> <<1>>, x |-> 1, n |-> <<42, 74, 83, 70, 187, 146, 20>>, e |-> -63],
    [good |-> <<1, 3, 2, 2>>, bad |-> <<1>>, x |-> 2, n |-> <<236, 159, 243, 254, 139, 246, 25>>, e |-> -34],
    [good |-> <<1, 3, 2, 2>>, bad |-> <<1>>, x |-> 3, n |-> <<188, 166, 23, 253, 73, 147, 30>>, e |-> -35],
    [good |-> <<1, 3, 2, 3>>, bad |-> <<1>>, x |-> 1, n |-> <<30, 24, 169, 22, 103, 86, 16>>, e |-> -63],
    [good |-> <<1, 3, 2, 3>>, bad |-> <<1>>, x |-> 2, n |-> <<101, 52, 142, 100, 50, 24, 18>>, e |-> -34],
    [good |-> <<1, 3, 2, 3>>, bad |-> <<1>>, x |-> 3, n |-> <<234, 99, 33, 171, 87, 188, 20>>, e |-> -34],
    [good |-> <<1, 3, 2, 3>>, bad |-> <<2>>, x |-> 1, n |-> <<86, 151, 26, 36, 201, 71, 24>>, e |-> -35],
    [good |-> <<1, 3, 2, 3>>, bad |-> <<2>>, x |-> 2, n |-> <<59, 152, 2, 145, 182, 89, 24>>, e |-> -63],
    [good |-> <<1, 3, 2, 3>>, bad |-> <<2>>, x |-> 3, n |-> <<234, 99, 33, 171, 87, 188, 20>>, e |-> -34],
    [good |-> <<1, 3, 3>>, bad |-> <<1, 1>>, x |-> 1, n |-> <<215, 96, 199, 89, 145, 212, 27>>, e |-> -64],
    [good |-> <<1, 3, 3>>, bad |-> <<1, 1>>, x |-> 2, n |-> <<131, 143, 1, 207, 122, 135, 29>>, e |-> -35],
    [good |-> <<1, 3, 3>>, bad |-> <<1, 1>>, x |-> 3, n |-> <<159, 246, 128, 172, 111, 140, 17>>, e |-> -34],
    [good |-> <<1, 3, 3>>, bad |-> <<2, 1>>, x |-> 1, n |-> <<143, 71, 113, 122, 43, 236, 22>>, e |-> -54],
    [good |-> <<1, 3, 3>>, bad |-> <<2, 1>>, x |-> 2, n |-> <<227, 241, 211, 19, 137, 93, 16>>, e |-> -53],
    [good |-> <<1, 3, 3>>, bad |-> <<2, 1>>, x |-> 3, n |-> <<37, 17, 61, 24, 91, 156, 27>>, e |-> -50],
    [good |-> <<1, 3, 3>>, bad |-> <<2, 2>>, x |-> 1, n |-> <<176, 246, 247, 29, 46, 174, 20>>, e |-> -35],
    [good |-> <<1, 3, 3>>, bad |-> <<2, 2>>, x |-> 2, n |-> <<129, 242, 200, 0, 136, 222, 19>>, e |-> -63],
    [good |-> <<1, 3, 3>>, bad |-> <<2, 2>>, x |-> 3, n |-> <<159, 246, 128, 172, 111, 140, 17>>, e |-> -34],
    [good |-> <<1, 3, 3, 2>>, bad |-> <<1>>, x |-> 1, n |-> <<30, 24, 169, 22, 103, 86, 16>>, e |-> -63],
    [good |-> <<1, 3, 3, 2>>, bad |-> <<1>>, x |-> 2, n |-> <<101, 52, 142, 100, 50, 24, 18>>, e |-> -34],
    [good |-> <<1, 3, 3, 2>>, bad |-> <<1>>, x |-> 3, n |-> <<234, 99, 33, 171, 87, 188, 20>>, e |-> -34],
    [good |-> <<1, 3, 3, 3>>, bad |-> <<1>>, x |-> 1, n |-> <<134, 99, 198, 169, 117, 37, 23>>, e |-> -64],
    [good |-> <<1, 3, 3, 3>>, bad |-> <<1>>, x |-> 2, n |-> <<161, 200, 60, 183, 25, 244, 27>>, e |-> -35],
    [good |-> <<1, 3, 3, 3>>, bad |-> <<1>>, x |-> 3, n |-> <<176, 224, 48, 82, 116, 12, 23>>, e |-> -34],
    [good |-> <<1, 3, 3, 3>>, bad |-> <<2>>, x |-> 1, n |-> <<102, 40, 55, 43, 35, 51, 17>>, e |-> -35],
    [good |-> <<1, 3, 3, 3>>, bad |-> <<2>>, x |-> 2, n |-> <<195, 77, 150, 60, 28, 207, 18>>, e |-> -63],
    [good |-> <<1, 3, 3, 3>>, bad |-> <<2>>, x |-> 3, n |-> <<176, 224, 48, 82, 116, 12, 23>>, e |-> -34],
    [good |-> <<2, 1, 1>>, bad |-> <<1, 1>>, x |-> 1, n |-> <<109, 150, 77, 201, 0, 153, 23>>, e |-> -62],
    [good |-> <<2, 1, 1>>, bad |-> <<1, 1>>, x |-> 2, n |-> <<35, 74, 143, 139, 75, 173, 20>>, e |-> -34],
    [good |-> <<2, 1, 1>>, bad |-> <<1, 1>>, x |-> 3, n |-> <<29, 57, 74, 102, 46, 211, 16>>, e |-> -37],
    [good |-> <<2, 1, 2>>, bad |-> <<1, 1>>, x |-> 1, n |-> <<238, 69, 220, 113, 96, 211, 27>>, e |-> -63],
    [good |-> <<2, 1, 2>>, bad |-> <<1, 1>>, x |-> 2, n |-> <<198, 204, 182, 14, 255, 136, 17>>, e |-> -33],
    [good |-> <<2, 1, 2>>, bad |-> <<1, 1>>, x |-> 3, n |-> <<191, 131, 244, 140, 253, 197, 16>>, e |-> -36],
    [good |-> <<2, 1, 3>>, bad |-> <<1, 1>>, x |-> 1, n |-> <<127, 181, 27, 233, 25, 138, 21>>, e |-> -63],
    [good |-> <<2, 1, 3>>, bad |-> <<1, 1>>, x |-> 2, n |-> <<158, 150, 205, 118, 155, 248, 19>>, e |-> -34],
    [good |-> <<2, 1, 3>>, bad |-> <<1, 1>>, x |-> 3, n |-> <<136, 129, 99, 64, 118, 1, 16>>, e |-> -34],
    [good |-> <<2, 2>>, bad |-> <<1, 1, 1>>, x |-> 1, n |-> <<0, 0, 0, 0, 0, 0, 0>>, e |-> -1074],
    [good |-> <<2, 2>>, bad |-> <<1, 1, 1>>, x |-> 2, n |-> <<76, 196, 102, 72, 96, 199, 23>>, e |-> -24],
    [good |-> <<2, 2>>, bad |-> <<1, 1, 1>>, x |-> 3, n |-> <<0, 0, 0, 0, 0, 0, 0>>, e |-> -1074],
    [good |-> <<2, 2, 2>>, bad |-> <<1, 1>>, x |-> 1, n |-> <<0, 0, 0, 0, 0, 0, 0>>, e |-> -1074],
    [good |-> <<2, 2, 2>>, bad |-> <<1, 1>>, x |-> 2, n |-> <<76, 196, 102, 72, 96, 199, 23>>, e |-> -24],
    [good |-> <<2, 2, 2>>, bad |-> <<1, 1>>, x |-> 3, n |-> <<0, 0, 0, 0, 0, 0, 0>>, e |-> -1074],
    [good |-> <<2, 2, 2, 2>>, bad |-> <<1>>, x |-> 1, n |-> <<0, 0, 0, 0, 0, 0, 0>>, e |-> -1074],
    [good |-> <<2, 2, 2, 2>>, bad |-> <<1>>, x |-> 2, n |-> <<76, 196, 102, 72, 96, 199, 23>>, e |-> -24],
    [good |-> <<2, 2, 2, 2>>, bad |-> <<1>>, x |-> 3, n |-> <<0, 0, 0, 0, 0, 0, 0>>, e |-> -1074],
    [good |-> <<2, 2, 2, 3>>, bad |-> <<1>>, x |-> 1, n |-> <<183, 4, 155, 56, 73, 91, 22>>, e |-> -66],
    [good |-> <<2, 2, 2, 3>>, bad |-> <<1>>, x |-> 2, n |-> <<219, 224, 150, 8, 206, 5, 23>>, e |-> -33],
    [good |-> <<2, 2, 2, 3>>, bad |-> <<1>>, x |-> 3, n |-> <<127, 169, 68, 169, 187, 49, 17>>, e |-> -34],
    [good |-> <<2, 2, 3>>, bad |-> <<1, 1>>, x |-> 1, n |-> <<222, 165, 139, 160, 147, 146, 22>>, e |-> -65],
    [good |-> <<2, 2, 3>>, bad |-> <<1, 1>>, x |-> 2, n |-> <<198, 204, 182, 14, 255, 136, 17>>, e |-> -33],
    [good |-> <<2, 2, 3>>, bad |-> <<1, 1>>, x |-> 3, n |-> <<35, 74, 143, 139, 75, 173, 20>>, e |-> -34],
    [good |-> <<2, 2, 3, 2>>, bad |-> <<1>>, x |-> 1, n |-> <<183, 4, 155, 56, 73, 91, 22>>, e |-> -66],
    [good |-> <<2, 2, 3, 2>>, bad |-> <<1>>, x |-> 2, n |-> <<219, 224, 150, 8, 206, 5, 23>>, e |-> -33],
    [good |-> <<2, 2, 3, 2>>, bad |-> <<1>>, x |-> 3, n |-> <<127, 169, 68, 169, 187, 49, 17>>, e |-> -34],
    [good |-> <<2, 2, 3, 3>>, bad |-> <<1>>, x |-> 1, n |-> <<17, 36, 82, 76, 137, 207, 29>>, e |-> -67],
    [good |-> <<2, 2, 3, 3>>, bad |-> <<1>>, x |-> 2, n |-> <<154, 53, 57, 221, 171, 158, 31>>, e |-> -34],
    [good |-> <<2, 2, 3, 3>>, bad |-> <<1>>, x |-> 3, n |-> <<154, 53, 57, 221, 171, 158, 31>>, e |-> -34],
    [good |-> <<2, 2, 3, 3>>, bad |-> <<2>>, x |-> 1, n |-> <<77, 187, 170, 255, 230, 38, 22>>, e |-> -38],
    [good |-> <<2, 2, 3, 3>>, bad |-> <<2>>, x |-> 2, n |-> <<217, 204, 180, 255, 164, 70, 21>>, e |-> -62],
    [good |-> <<2, 2, 3, 3>>, bad |-> <<2>>, x |-> 3, n |-> <<154, 53, 57, 221, 171, 158, 31>>, e |-> -34],
    [good |-> <<2, 3>>, bad |-> <<1, 1, 1>>, x |-> 1, n |-> <<29, 99, 239, 19, 135, 94, 27>>, e |-> -66],
    [good |-> <<2, 3>>, bad |-> <<1, 1, 1>>, x |-> 2, n |-> <<249, 91, 82, 252, 176, 222, 28>>, e |-> -34],
    [good |-> <<2, 3>>, bad |-> <<1, 1, 1>>, x |-> 3, n |-> <<249, 91, 82, 252, 176, 222, 28>>, e |-> -34],
    [good |-> <<2, 3>>, bad |-> <<2, 1, 1>>, x |-> 1, n |-> <<126, 242, 160, 59, 166, 142, 18>>, e |-> -56],
    [good |-> <<2, 3>>, bad |-> <<2, 1, 1>>, x |-> 2, n |-> <<250, 172, 79, 171, 247, 86, 22>>, e |-> -52],
    [good |-> <<2, 3>>, bad |-> <<2, 1, 1>>, x |-> 3, n |-> <<104, 10, 112, 28, 31, 116, 27>>, e |-> -49],
    [good |-> <<2, 3, 2>>, bad |-> <<1, 1>>, x |-> 1, n |-> <<222, 165, 139, 160, 147, 146, 22>>, e |-> -65],
    [good |-> <<2, 3, 2>>, bad |-> <<1, 1>>, x |-> 2, n |-> <<198, 204, 182, 14, 255, 136, 17>>, e |-> -33],
    [good |-> <<2, 3, 2>>, bad |-> <<1, 1>>, x |-> 3, n |-> <<35, 74, 143, 139, 75, 173, 20>>, e |-> -34],
    [good |-> <<2, 3, 2>>, bad |-> <<2, 1>>, x |-> 1, n |-> <<11, 115, 45, 98, 138, 151, 18>>, e |-> -55],
    [good |-> <<2, 3, 2>>, bad |-> <<2, 1>>, x |-> 2, n |-> <<58, 160, 122, 84, 176, 111, 19>>, e |-> -52],
    [good |-> <<2, 3, 2>>, bad |-> <<2, 1>>, x |-> 3, n |-> <<246, 130, 14, 177, 53, 68, 16>>, e |-> -49],
    [good |-> <<2, 3, 2, 2>>, bad |-> <<1>>, x |-> 1, n |-> <<183, 4, 155, 56, 73, 91, 22>>, e |-> -66],
    [good |-> <<2, 3, 2, 2>>, bad |-> <<1>>, x |-> 2, n |-> <<219, 224, 150, 8, 206, 5, 23>>, e |-> -33],
    [good |-> <<2, 3, 2, 2>>, bad |-> <<1>>, x |-> 3, n |-> <<127, 169, 68, 169, 187, 49, 17>>, e |-> -34],
    [good |-> <<2, 3, 2, 2>>, bad |-> <<2>>, x |-> 1, n |-> <<97, 36, 43, 149, 231, 156, 16>>, e |-> -37],
    [good |-> <<2, 3, 2, 2>>, bad |-> <<2>>, x |-> 2, n |-> <<139, 203, 54, 17, 129, 251, 30>>, e |-> -62],
    [good |-> <<2, 3, 2, 2>>, bad |-> <<2>>, x |-> 3, n |-> <<127, 169, 68, 169, 187, 49, 17>>, e |-> -34],
    [good |-> <<2, 3, 2, 3>>, bad |-> <<1>>, x |-> 1, n |-> <<17, 36, 82, 76, 137, 207, 29>>, e |-> -67],
    [good |-> <<2, 3, 2, 3>>, bad |-> <<1>>, x |-> 2, n |-> <<154, 53, 57, 221, 171, 158, 31>>, e |-> -34],
    [good |-> <<2, 3, 2, 3>>, bad |-> <<1>>, x |-> 3, n |-> <<154, 53, 57, 221, 171, 158, 31>>, e |-> -34],
    [good |-> <<2, 3, 2, 3>>, bad |-> <<2>>, x |-> 1, n |-> <<77, 187, 170, 255, 230, 38, 22>>, e |-> -38],
    [good |-> <<2, 3, 2, 3>>, bad |-> <<2>>, x |-> 2, n |-> <<217, 204, 180, 255, 164, 70, 21>>, e |-> -62],
    [good |-> <<2, 3, 2, 3>>, bad |-> <<2>>, x |-> 3, n |-> <<154, 53, 57, 221, 171, 158, 31>>, e |-> -34],
    [good |-> <<2, 3, 3>>, bad |-> <<1, 1>>, x |-> 1, n |-> <<93, 159, 67, 249, 83, 164, 22>>, e |-> -66],
    [good |-> <<2, 3, 3>>, bad |-> <<1, 1>>, x |-> 2, n |-> <<35, 74, 143, 139, 75, 173, 20>>, e |-> -34],
    [good |-> <<2, 3, 3>>, bad |-> <<1, 1>>, x |-> 3, n |-> <<198, 204, 182, 14, 255, 136, 17>>, e |-> -33],
    [good |-> <<2, 3, 3>>, bad |-> <<1, 2>>, x |-> 1, n |-> <<146, 191, 215, 88, 41, 166, 18>>, e |-> -56],
    [good |-> <<2, 3, 3>>, bad |-> <<1, 2>>, x |-> 2, n |-> <<3, 129, 120, 87, 48, 235, 22>>, e |-> -53],
    [good |-> <<2, 3, 3>>, bad |-> <<1, 2>>, x |-> 3, n |-> <<94, 20, 152, 138, 241, 150, 27>>, e |-> -49],
    [good |-> <<2, 3, 3>>, bad |-> <<2, 1>>, x |-> 1, n |-> <<146, 191, 215, 88, 41, 166, 18>>, e |-> -56],
    [good |-> <<2, 3, 3>>, bad |-> <<2, 1>>, x |-> 2, n |-> <<3, 129, 120, 87, 48, 235, 22>>, e |-> -53],
    [good |-> <<2, 3, 3>>, bad |-> <<2, 1>>, x |-> 3, n |-> <<94, 20, 152, 138, 241, 150, 27>>, e |-> -49],
    [good |-> <<2, 3, 3>>, bad |-> <<2, 2>>, x |-> 1, n |-> <<29, 57, 74, 102, 46, 211, 16>>, e |-> -37],
    [good |-> <<2, 3, 3>>, bad |-> <<2, 2>>, x |-> 2, n |-> <<238, 69, 220, 113, 96, 211, 27>>, e |-> -63],
    [good |-> <<2, 3, 3>>, bad |-> <<2, 2>>, x |-> 3, n |-> <<198, 204, 182, 14, 255, 136, 17>>, e |-> -33],
    [good |-> <<2, 3, 3, 3>>, bad |-> <<1>>, x |-> 1, n |-> <<102, 125, 220, 78, 0, 209, 29>>, e |-> -68],
    [good |-> <<2, 3, 3, 3>>, bad |-> <<1>>, x |-> 2, n |-> <<127, 169, 68, 169, 187, 49, 17>>, e |-> -34],
    [good |-> <<2, 3, 3, 3>>, bad |-> <<1>>, x |-> 3, n |-> <<219, 224, 150, 8, 206, 5, 23>>, e |-> -33],
    [good |-> <<2, 3, 3, 3>>, bad |-> <<2>>, x |-> 1, n |-> <<175, 91, 254, 169, 253, 39, 22>>, e |-> -39],
    [good |-> <<2, 3, 3, 3>>, bad |-> <<2>>, x |-> 2, n |-> <<79, 156, 101, 220, 145, 35, 23>>, e |-> -63],
    [good |-> <<2, 3, 3, 3>>, bad |-> <<2>>, x |-> 3, n |-> <<219, 224, 150, 8, 206, 5, 23>>, e |-> -33],
    [good |-> <<3>>, bad |-> <<2, 1, 1, 1>>, x |-> 1, n |-> <<0, 0, 0, 0, 0, 0, 0>>, e |-> -1074],
    [good |-> <<3>>, bad |-> <<2, 1, 1, 1>>, x |-> 2, n |-> <<0, 0, 0, 0, 0, 0, 0>>, e |-> -1074],
    [good |-> <<3>>, bad |-> <<2, 1, 1, 1>>, x |-> 3, n |-> <<63, 73, 158, 181, 148, 43, 17>>, e |-> -37],
    [good |-> <<3>>, bad |-> <<2, 2, 1, 1>>, x |-> 1, n |-> <<0, 0, 0, 0, 0, 0, 0>>, e |-> -1074],
    [good |-> <<3>>, bad |-> <<2, 2, 1, 1>>, x |-> 2, n |-> <<0, 0, 0, 0, 0, 0, 0>>, e |-> -1074],
    [good |-> <<3>>, bad |-> <<2, 2, 1, 1>>, x |-> 3, n |-> <<48, 167, 49, 77, 158, 44, 17>>, e |-> -38],
    [good |-> <<3, 1, 1>>, bad |-> <<1, 1>>, x |-> 1, n |-> <<201, 35, 2, 221, 161, 157, 23>>, e |-> -63],
    [good |-> <<3, 1, 1>>, bad |-> <<1, 1>>, x |-> 2, n |-> <<131, 143, 1, 207, 122, 135, 29>>, e |-> -35],
    [good |-> <<3, 1, 1>>, bad |-> <<1, 1>>, x |-> 3, n |-> <<176, 246, 247, 29, 46, 174, 20>>, e |-> -35],
    [good |-> <<3, 1, 2>>, bad |-> <<1, 1>>, x |-> 1, n |-> <<128, 181, 27, 233, 25, 138, 21>>, e |-> -63],
    [good |-> <<3, 1, 2>>, bad |-> <<1, 1>>, x |-> 2, n |-> <<158, 150, 205, 118, 155, 248, 19>>, e |-> -34],
    [good |-> <<3, 1, 2>>, bad |-> <<1, 1>>, x |-> 3, n |-> <<136, 129, 99, 64, 118, 1, 16>>, e |-> -34],
    [good |-> <<3, 1, 3>>, bad |-> <<1, 1>>, x |-> 1, n |-> <<215, 96, 199, 89, 145, 212, 27>>, e |-> -64],
    [good |-> <<3, 1, 3>>, bad |-> <<1, 1>>, x |-> 2, n |-> <<131, 143, 1, 207, 122, 135, 29>>, e |-> -35],
    [good |-> <<3, 1, 3>>, bad |-> <<1, 1>>, x |-> 3, n |-> <<159, 246, 128, 172, 111, 140, 17>>, e |-> -34],
    [good |-> <<3, 2>>, bad |-> <<1, 1, 1>>, x |-> 1, n |-> <<29, 99, 239, 19, 135, 94, 27>>, e |-> -66],
    [good |-> <<3, 2>>, bad |-> <<1, 1, 1>>, x |-> 2, n |-> <<249, 91, 82, 252, 176, 222, 28>>, e |-> -34],
    [good |-> <<3, 2>>, bad |-> <<1, 1, 1>>, x |-> 3, n |-> <<249, 91, 82, 252, 176, 222, 28>>, e |-> -34],
    [good |-> <<3, 2>>, bad |-> <<2, 1, 1>>, x |-> 1, n |-> <<126, 242, 160, 59, 166, 142, 18>>, e |-> -56],
    [good |-> <<3, 2>>, bad |-> <<2, 1, 1>>, x |-> 2, n |-> <<250, 172, 79, 171, 247, 86, 22>>, e |-> -52],
    [good |-> <<3, 2>>, bad |-> <<2, 1, 1>>, x |-> 3, n |-> <<104, 10, 112, 28, 31, 116, 27>>, e |-> -49],
    [good |-> <<3, 2>>, bad |-> <<2, 2, 1>>, x |-> 1, n |-> <<33, 125, 131, 12, 153, 121, 31>>, e |-> -56],
    [good |-> <<3, 2>>, bad |-> <<2, 2, 1>>, x |-> 2, n |-> <<141, 224, 186, 88, 166, 87, 26>>, e |-> -53],
    [good |-> <<3, 2>>, bad |-> <<2, 2, 1>>, x |-> 3, n |-> <<167, 57, 253, 56, 208, 137, 27>>, e |-> -50],
    [good |-> <<3, 2, 2>>, bad |-> <<1, 1>>, x |-> 1, n |-> <<222, 165, 139, 160, 147, 146, 22>>, e |-> -65],
    [good |-> <<3, 2, 2>>, bad |-> <<1, 1>>, x |-> 2, n |-> <<198, 204, 182, 14, 255, 136, 17>>, e |-> -33],
    [good |-> <<3, 2, 2>>, bad |-> <<1, 1>>, x |-> 3, n |-> <<35, 74, 143, 139, 75, 173, 20>>, e |-> -34],
    [good |-> <<3, 2, 2>>, bad |-> <<2, 1>>, x |-> 1, n |-> <<11, 115, 45, 98, 138, 151, 18>>, e |-> -55],
    [good |-> <<3, 2, 2>>, bad |-> <<2, 1>>, x |-> 2, n |-> <<58, 160, 122, 84, 176, 111, 19>>, e |-> -52],
    [good |-> <<3, 2, 2>>, bad |-> <<2, 1>>, x |-> 3, n |-> <<246, 130, 14, 177, 53, 68, 16>>, e |-> -49],
    [good |-> <<3, 2, 2>>, bad |-> <<2, 2>>, x |-> 1, n |-> <<191, 131, 244, 140, 253, 197, 16>>, e |-> -36],
    [good |-> <<3, 2, 2>>, bad |-> <<2, 2>>, x |-> 2, n |-> <<109, 150, 77, 201, 0, 153, 23>>, e |-> -62],
    [good |-> <<3, 2, 2>>, bad |-> <<2, 2>>, x |-> 3, n |-> <<35, 74, 143, 139, 75, 173, 20>>, e |-> -34],
    [good |-> <<3, 2, 2, 2>>, bad |-> <<1>>, x |-> 1, n |-> <<183, 4, 155, 56, 73, 91, 22>>, e |-> -66],
    [good |-> <<3, 2, 2, 2>>, bad |-> <<1>>, x |-> 2, n |-> <<219, 224, 150, 8, 206, 5, 23>>, e |-> -33],
    [good |-> <<3, 2, 2, 2>>, bad |-> <<1>>, x |-> 3, n |-> <<127, 169, 68, 169, 187, 49, 17>>, e |-> -34],
    [good |-> <<3, 2, 2, 3>>, bad |-> <<1>>, x |-> 1, n |-> <<17, 36, 82, 76, 137, 207, 29>>, e |-> -67],
    [good |-> <<3, 2, 2, 3>>, bad |-> <<1>>, x |-> 2, n |-> <<154, 53, 57, 221, 171, 158, 31>>, e |-> -34],
    [good |-> <<3, 2, 2, 3>>, bad |-> <<1>>, x |-> 3, n |-> <<154, 53, 57, 221, 171, 158, 31>>, e |-> -34],
    [good |-> <<3, 2, 3>>, bad |-> <<1, 1>>, x |-> 1, n |-> <<93, 159, 67, 249, 83, 164, 22>>, e |-> -66],
    [good |-> <<3, 2, 3>>, bad |-> <<1, 1>>, x |-> 2, n |-> <<35, 74, 143, 139, 75, 173, 20>>, e |-> -34],
    [good |-> <<3, 2, 3>>, bad |-> <<1, 1>>, x |-> 3, n |-> <<198, 204, 182, 14, 255, 136, 17>>, e |-> -33],
    [good |-> <<3, 2, 3>>, bad |-> <<1, 2>>, x |-> 1, n |-> <<146, 191, 215, 88, 41, 166, 18>>, e |-> -56],
    [good |-> <<3, 2, 3>>, bad |-> <<1, 2>>, x |-> 2, n |-> <<3, 129, 120, 87, 48, 235, 22>>, e |-> -53],
    [good |-> <<3, 2, 3>>, bad |-> <<1, 2>>, x |-> 3, n |-> <<94, 20, 152, 138, 241, 150, 27>>, e |-> -49],
    [good |-> <<3, 2, 3>>, bad |-> <<2, 1>>, x |-> 1, n |-> <<146, 191, 215, 88, 41, 166, 18>>, e |-> -56],
    [good |-> <<3, 2, 3>>, bad |-> <<2, 1>>, x |-> 2, n |-> <<3, 129, 120, 87, 48, 235, 22>>, e |-> -53],
    [good |-> <<3, 2, 3>>, bad |-> <<2, 1>>, x |-> 3, n |-> <<94, 20, 152, 138, 241, 150, 27>>, e |-> -49],
    [good |-> <<3, 2, 3>>, bad |-> <<2, 2>>, x |-> 1, n |-> <<29, 57, 74, 102, 46, 211, 16>>, e |-> -37],
    [good |-> <<3, 2, 3>>, bad |-> <<2, 2>>, x |-> 2, n |-> <<238, 69, 220, 113, 96, 211, 27>>, e |-> -63],
    [good |-> <<3, 2, 3>>, bad |-> <<2, 2>>, x |-> 3, n |-> <<198, 204, 182, 14, 255, 136, 17>>, e |-> -33],
    [good |-> <<3, 2, 3, 3>>, bad |-> <<1>>, x |-> 1, n |-> <<102, 125, 220, 78, 0, 209, 29>>, e |-> -68],
    [good |-> <<3, 2, 3, 3>>, bad |-> <<1>>, x |-> 2, n |-> <<127, 169, 68, 169, 187, 49, 17>>, e |-> -34],
    [good |-> <<3, 2, 3, 3>>, bad |-> <<1>>, x |-> 3, n |-> <<219, 224, 150, 8, 206, 5, 23>>, e |-> -33],
    [good |-> <<3, 3>>, bad |-> <<1, 1, 1>>, x |-> 1, n |-> <<0, 0, 0, 0, 0, 0, 0>>, e |-> -1074],
    [good |-> <<3, 3>>, bad |-> <<1, 1, 1>>, x |-> 2, n |-> <<0, 0, 0, 0, 0, 0, 0>>, e |-> -1074],
    [good |-> <<3, 3>>, bad |-> <<1, 1, 1>>, x |-> 3, n |-> <<76, 196, 102, 72, 96, 199, 23>>, e |-> -24],
    [good |-> <<3, 3>>, bad |-> <<1, 2, 1>>, x |-> 1, n |-> <<0, 0, 0, 0, 0, 0, 0>>, e |-> -1074],
    [good |-> <<3, 3>>, bad |-> <<1, 2, 1>>, x |-> 2, n |-> <<0, 0, 0, 0, 0, 0, 0>>, e |-> -1074],
    [good |-> <<3, 3>>, bad |-> <<1, 2, 1>>, x |-> 3, n |-> <<111, 126, 127, 108, 190, 156, 22>>, e |-> -39],
    [good |-> <<3, 3>>, bad |-> <<1, 2, 2>>, x |-> 1, n |-> <<0, 0, 0, 0, 0, 0, 0>>, e |-> -1074],
    [good |-> <<3, 3>>, bad |-> <<1, 2, 2>>, x |-> 2, n |-> <<0, 0, 0, 0, 0, 0, 0>>, e |-> -1074],
    [good |-> <<3, 3>>, bad |-> <<1, 2, 2>>, x |-> 3, n |-> <<161, 243, 224, 68, 156, 174, 22>>, e |-> -40],
    [good |-> <<3, 3>>, bad |-> <<2, 1, 1>>, x |-> 1, n |-> <<0, 0, 0, 0, 0, 0, 0>>, e |-> -1074],
    [good |-> <<3, 3>>, bad |-> <<2, 1, 1>>, x |-> 2, n |-> <<0, 0, 0, 0, 0, 0, 0>>, e |-> -1074],
    [good |-> <<3, 3>>, bad |-> <<2, 1, 1>>, x |-> 3, n |-> <<111, 126, 127, 108, 190, 156, 22>>, e |-> -39],
    [good |-> <<3, 3>>, bad |-> <<2, 1, 2>>, x |-> 1, n |-> <<0, 0, 0, 0, 0, 0, 0>>, e |-> -1074],
    [good |-> <<3, 3>>, bad |-> <<2, 1, 2>>, x |-> 2, n |-> <<0, 0, 0, 0, 0, 0, 0>>, e |-> -1074],
    [good |-> <<3, 3>>, bad |-> <<2, 1, 2>>, x |-> 3, n |-> <<161, 243, 224, 68, 156, 174, 22>>, e |-> -40],
    [good |-> <<3, 3>>, bad |-> <<2, 2, 1>>, x |-> 1, n |-> <<0, 0, 0, 0, 0, 0, 0>>, e |-> -1074],
    [good |-> <<3, 3>>, bad |-> <<2, 2, 1>>, x |-> 2, n |-> <<0, 0, 0, 0, 0, 0, 0>>, e |-> -1074],
    [good |-> <<3, 3>>, bad |-> <<2, 2, 1>>, x |-> 3, n |-> <<161, 243, 224, 68, 156, 174, 22>>, e |-> -40],
    [good |-> <<3, 3>>, bad |-> <<2, 2, 2>>, x |-> 1, n |-> <<0, 0, 0, 0, 0, 0, 0>>, e |-> -1074],
    [good |-> <<3, 3>>, bad |-> <<2, 2, 2>>, x |-> 2, n |-> <<0, 0, 0, 0, 0, 0, 0>>, e |-> -1074],
    [good |-> <<3, 3>>, bad |-> <<2, 2, 2>>, x |-> 3, n |-> <<76, 196, 102, 72, 96, 199, 23>>, e |-> -24],
    [good |-> <<3, 3, 2>>, bad |-> <<1, 1>>, x |-> 1, n |-> <<94, 159, 67, 249, 83, 164, 22>>, e |-> -66],
    [good |-> <<3, 3, 2>>, bad |-> <<1, 1>>, x |-> 2, n |-> <<35, 74, 143, 139, 75, 173, 20>>, e |-> -34],
    [good |-> <<3, 3, 2>>, bad |-> <<1, 1>>, x |-> 3, n |-> <<198, 204, 182, 14, 255, 136, 17>>, e |-> -33],
    [good |-> <<3, 3, 3>>, bad |-> <<1, 1>>, x |-> 1, n |-> <<0, 0, 0, 0, 0, 0, 0>>, e |-> -1074],
    [good |-> <<3, 3, 3>>, bad |-> <<1, 1>>, x |-> 2, n |-> <<0, 0, 0, 0, 0, 0, 0>>, e |-> -1074],
    [good |-> <<3, 3, 3>>, bad |-> <<1, 1>>, x |-> 3, n |-> <<76, 196, 102, 72, 96, 199, 23>>, e |-> -24],
    [good |-> <<3, 3, 3>>, bad |-> <<1, 2>>, x |-> 1, n |-> <<0, 0, 0, 0, 0, 0, 0>>, e |-> -1074],
    [good |-> <<3, 3, 3>>, bad |-> <<1, 2>>, x |-> 2, n |-> <<0, 0, 0, 0, 0, 0, 0>>, e |-> -1074],
    [good |-> <<3, 3, 3>>, bad |-> <<1, 2>>, x |-> 3, n |-> <<59, 32, 140, 208, 232, 180, 18>>, e |-> -39],
    [good |-> <<3, 3, 3>>, bad |-> <<2, 1>>, x |-> 1, n |-> <<0, 0, 0, 0, 0, 0, 0>>, e |-> -1074],
    [good |-> <<3, 3, 3>>, bad |-> <<2, 1>>, x |-> 2, n |-> <<0, 0, 0, 0, 0, 0, 0>>, e |-> -1074],
    [good |-> <<3, 3, 3>>, bad |-> <<2, 1>>, x |-> 3, n |-> <<59, 32, 140, 208, 232, 180, 18>>, e |-> -39],
    [good |-> <<3, 3, 3>>, bad |-> <<2, 2>>, x |-> 1, n |-> <<0, 0, 0, 0, 0, 0, 0>>, e |-> -1074],
    [good |-> <<3, 3, 3>>, bad |-> <<2, 2>>, x |-> 2, n |-> <<0, 0, 0, 0, 0, 0, 0>>, e |-> -1074],
    [good |-> <<3, 3, 3>>, bad |-> <<2, 2>>, x |-> 3, n |-> <<76, 196, 102, 72, 96, 199, 23>>, e |-> -24],
    [good |-> <<3, 3, 3, 3>>, bad |-> <<1>>, x |-> 1, n |-> <<0, 0, 0, 0, 0, 0, 0>>, e |-> -1074],
    [good |-> <<3, 3, 3, 3>>, bad |-> <<1>>, x |-> 2, n |-> <<0, 0, 0, 0, 0, 0, 0>>, e |-> -1074],
    [good |-> <<3, 3, 3, 3>>, bad |-> <<1>>, x |-> 3, n |-> <<76, 196, 102, 72, 96, 199, 23>>, e |-> -24],
    [good |-> <<3, 3, 3, 3>>, bad |-> <<2>>, x |-> 1, n |-> <<0, 0, 0, 0, 0, 0, 0>>, e |-> -1074],
    [good |-> <<3, 3, 3, 3>>, bad |-> <<2>>, x |-> 2, n |-> <<0, 0, 0, 0, 0, 0, 0>>, e |-> -1074],
    [good |-> <<3, 3, 3, 3>>, bad |-> <<2>>, x |-> 3, n |-> <<76, 196, 102, 72, 96, 199, 23>>, e |-> -24]
  }

\* The numbers of an array of finite scores.
Values(arr) == [i \in DOMAIN arr |-> arr[i].v]

\* pg / (pb + 1e-6) of utility(score) for finite data.
KdeRatio(good, bad, score) ==
  LET row == CHOOSE r \in KdeTable :
               r.good = Values(good) /\ r.bad = Values(bad) /\ r.x = score.v
  IN  [nan |-> FALSE, n |-> row.n, e |-> row.e]

\* TRUE iff arr holds a NaN or an infinity.
HasNonFinite(arr) == \E i \in 1..Len(arr) : ~IsFinite(arr[i])

(* What parzen(x, arr) is for a non-empty arr: NaN when x is NaN or arr     *)
(* holds a non-finite value (the bandwidth or a kernel is NaN), exactly 0   *)
(* when x is infinite and arr is finite (every kernel is exp(-Infinity)),   *)
(* else a finite density >= 0.                                              *)
ParzenClass(x, arr) ==
  CASE IsNaN(x) \/ HasNonFinite(arr) -> "nan"
    [] ~IsFinite(x) -> "zero"
    [] OTHER -> "finite"

\* A utility that draws only while the surrogate holds no score at all.
ExploresWhenBothEmpty(sur) == Len(sur.good) = 0 /\ Len(sur.bad) = 0

\* TRUE iff utility(score) of this surrogate draws from Math.random.
Explores(sur) == Len(sur.good) = 0 \/ Len(sur.bad) = 0

\* Surrogate.utility(score) when the next PRNG draw has numerator v.
Utility(sur, score, v) ==
  IF Explores(sur) THEN UDraw(v)
  ELSE LET pg == ParzenClass(score, sur.good)
           pb == ParzenClass(score, sur.bad)
       IN  CASE pg = "nan" \/ pb = "nan" -> UNaN
             [] pg = "zero" -> UZero
             [] OTHER -> KdeRatio(sur.good, sur.bad, score)

(* --------------------------------- prompts ------------------------------ *)

\* A Prompt {instruction, examples: []}.
MkPrompt(instruction) == [kind |-> "prompt", instruction |-> instruction, examples |-> <<>>]

\* An entry of initialPrompts that is a bare string.
BareString(text) == [kind |-> "string", instruction |-> text, examples |-> <<>>]

(* One entry of startingPrompts: a non-empty string is wrapped into a       *)
(* Prompt with no examples, anything else (a Prompt, the empty string) is   *)
(* stored as it is.                                                         *)
NormalizeEntry(entry) ==
  IF entry.kind = "string" /\ entry.instruction # ""
  THEN MkPrompt(entry.instruction)
  ELSE entry

\* startingPrompts as optimize builds it from initialPrompts.
StartingPrompts(initialPrompts) ==
  [stage \in DOMAIN initialPrompts |-> NormalizeEntry(initialPrompts[stage])]

\* { ...prompts } followed by the assignment copy[stage] = prompt.
WithStage(prompts, stage, prompt) ==
  [key \in (DOMAIN prompts) \cup {stage} |-> IF key = stage THEN prompt ELSE prompts[key]]

\* An assembly that writes the new prompt into best.prompts itself: no copy.
AssembleInPlace(prompts, stage, prompt) ==
  [candidate |-> WithStage(prompts, stage, prompt), base |-> WithStage(prompts, stage, prompt)]

(* const candidatePrompts = { ...best.prompts }; candidatePrompts[stage] =   *)
(* candidatePrompt: the candidate, and the object best.prompts refers to    *)
(* as the two statements leave it (the spread made a copy: untouched).      *)
Assemble(prompts, stage, prompt) ==
  [candidate |-> WithStage(prompts, stage, prompt), base |-> prompts]

(* The optimizer once the object best.prompts refers to holds base.  That   *)
(* object is also the prompts of the trial that best is, or startingPrompts *)
(* while best is the sentinel.                                              *)
Shared(o, base) ==
  [o EXCEPT !.best.prompts = base,
            !.history = [k \in DOMAIN @ |->
                           IF @[k] = o.best THEN [@[k] EXCEPT !.prompts = base] ELSE @[k]],
            !.startingPrompts = IF o.best.iteration < 0 THEN base ELSE @]

(* ------------------------------ collaborators --------------------------- *)
(* The collaborators are supplied by the caller.  The loader resolves with  *)
(* the configured dataset, whose items are named 1..n.  The runner's        *)
(* output is opaque to the optimizer: it resolves with a token naming the   *)
(* item it ran.  The two proposers are deterministic functions of the       *)
(* context; the evaluator is either any function (each call resolves with   *)
(* any score of Scores) or a deterministic function of the outputs.         *)

\* The dataset of n items.
Items(n) == [k \in 1..n |-> k]

\* A ProposerContext whose pastAttempts run from the newest trial to the oldest.
ContextNewestFirst(stage, stages, data, history, initialPrompts) ==
  [stageName |-> stage,
   dataSummary |-> SubSeq(data, 1, IF Len(data) < 3 THEN Len(data) ELSE 3),
   programSummary |-> stages,
   pastAttempts |-> [k \in 1..Len(history) |->
                       [prompt |-> history[Len(history) + 1 - k].prompts[stage],
                        score |-> history[Len(history) + 1 - k].score]],
   initialPrompts |-> initialPrompts]

\* The ProposerContext built by proposePrompt.
Context(stage, stages, data, history, initialPrompts) ==
  [stageName |-> stage,
   dataSummary |-> SubSeq(data, 1, IF Len(data) < 3 THEN Len(data) ELSE 3),
   programSummary |-> stages,
   pastAttempts |-> [k \in 1..Len(history) |->
                       [prompt |-> IF stage \in DOMAIN history[k].prompts
                                   THEN history[k].prompts[stage]
                                   ELSE [kind |-> "undefined", instruction |-> "", examples |-> <<>>],
                        score |-> history[k].score]],
   initialPrompts |-> initialPrompts]

\* A prompt a language model drafts for the stage after n past attempts.
Drafted(stage, n) == MkPrompt("new:" \o stage \o ":" \o ToString(n))

(* pastAttempts.sort((a, b) => b.score - a.score): the array after the      *)
(* call.  b.score - a.score is the double (-a.score) - (-b.score), so the   *)
(* engine sorts the objects as SortNumeric sorts their negated scores; `at` *)
(* tells which object a sorted key belongs to.  Attempts whose difference   *)
(* is 0 or NaN (equal scores, a NaN score) are placed as that procedure     *)
(* places them.                                                             *)
SortByScore(arr) ==
  LET Negated(a) == CASE a.k = "num" -> Num(-a.v)
                      [] a.k = "inf" -> NegInf
                      [] a.k = "ninf" -> PosInf
                      [] OTHER -> NaN
      keyed == [i \in 1..Len(arr) |->
                  [k |-> Negated(arr[i].score).k, v |-> Negated(arr[i].score).v, at |-> i]]
      sorted == SortNumeric(keyed)
  IN  [i \in 1..Len(arr) |-> arr[sorted[i].at]]

(* The ProposerContext object once the call of the proposer has returned    *)
(* its promise.  llmProposer with past attempts builds its request before   *)
(* its first await, and bestAttempts(3) sorts ctx.pastAttempts in place,    *)
(* best score first; the array is the one proposePrompt built for this      *)
(* call, so History is not touched.                                         *)
Called(kind, ctx) ==
  IF kind = "contract" THEN [ctx EXCEPT !.pastAttempts = SortByScore(@)] ELSE ctx

\* TRUE iff llmProposer has a request to OpenAI pending for the context.
Requests(kind, ctx) == kind = "contract" /\ Len(ctx.pastAttempts) > 0

(* The proposer.  "contract" is llmProposer: with no past attempts it       *)
(* returns initialPrompts[stageName], else a drafted prompt.  "fresh"       *)
(* drafts a prompt on every call.                                           *)
Proposer(kind, ctx) ==
  IF kind = "contract" /\ Len(ctx.pastAttempts) = 0
  THEN IF ctx.stageName \in DOMAIN ctx.initialPrompts
       THEN ctx.initialPrompts[ctx.stageName]
       ELSE [kind |-> "undefined", instruction |-> "", examples |-> <<>>]
  ELSE Drafted(ctx.stageName, Len(ctx.pastAttempts))

\* The runner's output for an item.
Runner(item, prompts) == item

\* The scores an evaluator of the model returns.
Scores == {NaN, NegInf, PosInf, Num(1), Num(2), Num(3)}

\* A deterministic evaluator: the position-weighted sum of the outputs.
RECURSIVE WeightedSum(_, _)
WeightedSum(outputs, k) ==
  IF k > Len(outputs) THEN 0 ELSE (k * outputs[k]) + WeightedSum(outputs, k + 1)

\* What a call of the evaluator may resolve with.
EvaluatorResults(kind, outputs) ==
  IF kind = "any" THEN Scores ELSE {Num(WeightedSum(outputs, 1) % 4)}

(* ------------------------------- selectStage ---------------------------- *)

\* A selectStage whose filter keeps every stage, executed or not.
UnexecutedKeepsAll(stages, executed) == stages

\* this.stages.filter((stage) => !this.executedStages.has(stage)).
Unexecuted(stages, executed) == SelectSeq(stages, LAMBDA stage : stage \notin executed)

\* The score selectStage passes to every surrogate.
LastScore(history) == IF Len(history) > 0 THEN history[Len(history)].score ELSE Num(0)

(* this.stages.map((stage) => this.surrogates[stage].utility(lastScore)),   *)
(* from stage k on, with the PRNG closure variable t: the utilities and the *)
(* closure variable afterwards.                                             *)
RECURSIVE Utilities(_, _, _, _, _)
Utilities(stages, k, surrogates, lastScore, t) ==
  IF k > Len(stages) THEN [utils |-> <<>>, t |-> t]
  ELSE LET sur  == surrogates[stages[k]]
           u    == Utility(sur, lastScore, Mulberry(t))
           rest == Utilities(stages, k + 1, surrogates, lastScore,
                             IF Explores(sur) THEN NextT(t) ELSE t)
       IN  [utils |-> <<u>> \o rest.utils, t |-> rest.t]

\* utils.reduce((a, b) => a + b, 0) over utils[1..k].
RECURSIVE Total(_, _)
Total(utils, k) == IF k = 0 THEN UZero ELSE UAdd(Total(utils, k - 1), utils[k])

\* The first index i >= k with r <= acc (acc the sum of utils[1..i]), or 0.
RECURSIVE Roulette(_, _, _, _)
Roulette(utils, k, v, total) ==
  IF k > Len(utils) THEN 0
  ELSE IF RLeAcc(v, total, Total(utils, k)) THEN k
       ELSE Roulette(utils, k + 1, v, total)

\* The first return of selectStage: a uniform pick among the unexecuted stages.
PickUnexecuted(unexecutedStages, t) ==
  [stage |-> unexecutedStages[FloorMul(Mulberry(t), Len(unexecutedStages)) + 1],
   t |-> NextT(t), mode |-> "unexecuted"]

\* this.stages[idx] for a 0-based idx: undefined when the array has no such element.
StageAt(stages, idx) == IF idx + 1 \in DOMAIN stages THEN stages[idx + 1] ELSE "undefined"

(* The end of selectStage once the roulette loop has ended at index i (0:   *)
(* it ended without a return) with closure variable t: the second return,   *)
(* or the uniform fallback of the last two lines.                           *)
Landed(stages, i, t) ==
  IF i > 0
  THEN [stage |-> stages[i], t |-> t, mode |-> "roulette"]
  ELSE [stage |-> StageAt(stages, FloorMul(Mulberry(t), Len(stages))),
        t |-> NextT(t), mode |-> "fallback"]

\* selectStage from `const total` on, with the utilities and closure variable t.
Spin(stages, utils, t) ==
  Landed(stages, Roulette(utils, 1, Mulberry(t), Total(utils, Len(utils))), NextT(t))

\* selectStage from `const utils` on.
PickByUtility(stages, us) == Spin(stages, us.utils, us.t)

(* selectStage(): the stage picked, the PRNG closure variable afterwards,   *)
(* and which of the three return statements picked it.                      *)
SelectStage(stages, executed, history, surrogates, t) ==
  IF Len(Unexecuted(stages, executed)) > 0
  THEN PickUnexecuted(Unexecuted(stages, executed), t)
  ELSE PickByUtility(stages, Utilities(stages, 1, surrogates, LastScore(history), t))

(* -------------------------------- sampleArray --------------------------- *)

\* copy.splice(idx, 1) for a 0-based idx: what is left of copy.
Splice(copy, idx) == SubSeq(copy, 1, idx) \o SubSeq(copy, idx + 2, Len(copy))

(* The while loop of sampleArray: the batch, what is left of copy and the   *)
(* closure variable after it.                                               *)
RECURSIVE SampleLoop(_, _, _, _)
SampleLoop(copy, out, n, t) ==
  IF Len(out) < n /\ Len(copy) > 0
  THEN LET idx == FloorMul(Mulberry(t), Len(copy))
       IN  SampleLoop(Splice(copy, idx), Append(out, copy[idx + 1]), n, NextT(t))
  ELSE [out |-> out, copy |-> copy, t |-> t]

\* A sampleArray that splices arr itself instead of a copy.
SampleArrayInPlace(arr, n, t) ==
  LET loop == SampleLoop(arr, <<>>, n, t)
  IN  [out |-> loop.out, arr |-> loop.copy, t |-> loop.t]

(* sampleArray(arr, n): the batch, the argument array as the call leaves it *)
(* (the loop splices a copy, [...arr]) and the closure variable afterwards. *)
SampleArray(arr, n, t) ==
  LET loop == SampleLoop(arr, <<>>, n, t)
  IN  [out |-> loop.out, arr |-> arr, t |-> loop.t]

(* --------------------------------- state -------------------------------- *)

VARIABLES
  cfg,     \* per optimizer: the constructor arguments, the collaborators, the threshold
  rng,     \* the process-wide Math.random: whether seedRandom replaced it, and its t
  opt,     \* per optimizer: the fields of the MIPROv2 object and the locals of optimize
  calls,   \* per optimizer: the collaborator calls optimize has made, in order
  result   \* per optimizer: the promise optimize returned

vars == <<cfg, rng, opt, calls, result>>

\* The optimizers of the run.
Insts == DOMAIN opt

\* The largest maxIterations the model configures.
MaxIter == 3

\* The largest dataset the model configures.
MaxData == 3

\* The stage lists the model configures.
StageLists == {<<"generate">>, <<"label", "explain">>, <<"a", "b", "c">>}

\* The seeds (opts.randomSeed) the model configures.
Seeds == {42, 7}

\* The early stop thresholds (options.earlyStopThreshold) the model configures.
Thresholds == {Num(2), Num(3)}

\* The elements of a sequence.
Range(seq) == {seq[k] : k \in 1..Len(seq)}

(* The initialPrompts argument the model configures for a stage list: one   *)
(* entry per stage, every entry a Prompt ("prompt") or every entry a bare   *)
(* string ("string").                                                       *)
InitialPromptsFor(stages, kind) ==
  [stage \in Range(stages) |->
     IF kind = "prompt" THEN MkPrompt("init:" \o stage) ELSE BareString("init:" \o stage)]

(* An initialPrompts argument with no entry for the last declared stage;    *)
(* for a single stage it is {}, the default of the constructor parameter.   *)
InitialPromptsLacking(stages) ==
  [stage \in Range(SubSeq(stages, 1, Len(stages) - 1)) |-> MkPrompt("init:" \o stage)]

\* An initialPrompts argument with an entry for a stage that is not declared.
InitialPromptsWithExtra(stages) ==
  [stage \in Range(stages) \cup {"other"} |-> MkPrompt("init:" \o stage)]

(* An initialPrompts argument of bare strings in which the entry of the     *)
(* last declared stage is the empty string.                                 *)
InitialPromptsWithEmpty(stages) ==
  [stage \in Range(stages) |->
     IF stage = stages[Len(stages)] THEN BareString("") ELSE BareString("init:" \o stage)]

\* The Trial `best` starts as.
Sentinel(startingPrompts) == [iteration |-> -1, prompts |-> startingPrompts, score |-> NegInf]

\* The value of a prompt that is not there.
Undefined == [kind |-> "undefined", instruction |-> "", examples |-> <<>>]

(* An optimizer that has not been constructed.  Besides the fields of the   *)
(* object and the locals of optimize it keeps a record of what happened:    *)
(* picks (what each selectStage call returned, and from which of its return *)
(* statements), utils (the array utils of the latest selectStage call),     *)
(* returned (what each evaluator call resolved with), raised (what the      *)
(* collaborators raised), streamAt (the closure variable of Math.random     *)
(* as the constructor or the latest step of this optimizer or of its        *)
(* pending proposer call left it), and of the withBackoff call inside a     *)
(* pending call of llmProposer: attempt (its loop variable), sleeping (it   *)
(* awaits its timer) and delays (the delays of the timers it has set).      *)
Unbuilt ==
  [pc |-> "new", history |-> <<>>, surrogates |-> <<>>, executedStages |-> {},
   data |-> <<>>, startingPrompts |-> <<>>, best |-> Sentinel(<<>>), iter |-> 0,
   stage |-> "", ctx |-> <<>>, candidatePrompts |-> <<>>, batch |-> <<>>,
   outputs |-> <<>>, picks |-> <<>>, raised |-> <<>>, utils |-> <<>>,
   returned |-> <<>>, streamAt |-> <<0, 0>>, attempt |-> 0,
   sleeping |-> FALSE, delays |-> <<>>]

\* A promise that is still pending.
Pending == [state |-> "pending", kind |-> "undefined", value |-> <<>>]

\* A promise fulfilled with undefined (an async function that returns nothing).
FulfilledVoid == [state |-> "fulfilled", kind |-> "undefined", value |-> <<>>]

\* One collaborator call in the log.
Call(op, iter, arg) == [op |-> op, iter |-> iter, arg |-> arg]

\* The error object a collaborator raises from its call in iteration iter.
Err(op, iter) == [op |-> op, iter |-> iter]

\* A promise rejected with a reason.
Rejected(reason) == [state |-> "rejected", kind |-> "error", value |-> reason]

(* How a collaborator may raise: by throwing from the call, or by returning *)
(* a promise that rejects.                                                  *)
Raisings == {"throw", "reject"}

(* ------------------------------- optimize ------------------------------- *)
(* optimize is an async function: it runs until it awaits a collaborator    *)
(* and resumes when that collaborator resolves.  Each action below is one   *)
(* such run-to-suspension step of one optimizer.                            *)

\* A loop that runs while iter <= maxIterations: one iteration too many.
LoopContinuesInclusive(iter, maxIterations) == iter <= maxIterations

\* The loop condition iter < this.opts.maxIterations.
LoopContinues(iter, maxIterations) == iter < maxIterations

\* A best update that also fires on a tie: score >= best.score.
ImprovesOrTies(score, bestScore) == Ge(score, bestScore)

\* A best update with the comparison inverted: score < best.score.
ImprovesWhenLower(score, bestScore) == Gt(bestScore, score)

\* The test score > best.score.
Improves(score, bestScore) == Gt(score, bestScore)

\* An early stop that needs the score to exceed the threshold: score > earlyStopThreshold.
ReachedTargetStrictly(score, threshold) == Gt(score, threshold)

\* The test score >= earlyStopThreshold.
ReachedTarget(score, threshold) == Ge(score, threshold)

\* A Trial that records 0 in place of a score that is not a number.
NewTrialWithoutNaN(iter, candidatePrompts, score) ==
  [iteration |-> iter, prompts |-> candidatePrompts,
   score |-> IF IsNaN(score) THEN Num(0) ELSE score]

\* The Trial an iteration records.
NewTrial(iter, candidatePrompts, score) ==
  [iteration |-> iter, prompts |-> candidatePrompts, score |-> score]

\* An outputter call that passes the Trial instead of its prompts.
OutputsTrial(best) == best

\* What this.outputter is called with.
OutputterArgument(best) == best.prompts

\* What the promise of optimize is fulfilled with when the function ends.
Resolution(best) == FulfilledVoid

(* What the promise of optimize becomes when an awaited collaborator call   *)
(* raises err: optimize has no try/catch, the await rethrows and the async  *)
(* function rejects with the same error.                                    *)
Surfaced(err) == Rejected(err)

\* An iteration that records a placeholder trial before it is evaluated.
AbortedAfterPush(o, raising) ==
  [o EXCEPT !.pc = "failed",
            !.history = Append(@, [iteration |-> o.iter, prompts |-> o.candidatePrompts,
                                   score |-> NaN]),
            !.raised = Append(@, raising)]

(* The optimizer when an exception leaves optimize at an await of the loop  *)
(* or of the loader: every write of the iteration (history.push,            *)
(* surrogate update, best) comes after the last await, so no field changes. *)
Aborted(o, raising) == [o EXCEPT !.pc = "failed", !.raised = Append(@, raising)]

(* The end of optimize: this.outputter(best.prompts), then the implicit     *)
(* return.  The call is not awaited and not guarded: an outputter that      *)
(* throws makes optimize reject, one that returns a promise has that        *)
(* promise dropped, whether it rejects or not.                              *)
Finish(c, o, t) ==
  LET call == Call("outputter", o.iter, OutputterArgument(o.best))
      err  == Err("outputter", o.iter)
  IN  CASE c.outputter = "throws" ->
             [o |-> Aborted(o, [err |-> err, how |-> "throw"]), t |-> t,
              calls |-> <<call>>, result |-> Surfaced(err)]
        [] c.outputter = "rejects" ->
             [o |-> [o EXCEPT !.pc = "done",
                              !.raised = Append(@, [err |-> err, how |-> "reject"])],
              t |-> t, calls |-> <<call>>, result |-> Resolution(o.best)]
        [] OTHER ->
             [o |-> [o EXCEPT !.pc = "done"], t |-> t,
              calls |-> <<call>>, result |-> Resolution(o.best)]

(* The array utils of the selectStage call: the utilities of the stages, or *)
(* <<>> when the call returns from its first branch and never builds it.    *)
UtilsOf(stages, executed, history, surrogates, t) ==
  IF Len(Unexecuted(stages, executed)) > 0
  THEN <<>>
  ELSE Utilities(stages, 1, surrogates, LastScore(history), t).utils

(* The head of the for loop with the locals of o: either the start of an    *)
(* iteration up to the await of the proposer (selectStage, executedStages   *)
(* .add, proposePrompt and the proposer's own code up to its first await),  *)
(* or the end of optimize.  The log keeps the context as it was passed.     *)
LoopHead(c, o, t) ==
  IF LoopContinues(o.iter, c.maxIterations)
  THEN LET sel == SelectStage(c.stages, o.executedStages, o.history, o.surrogates, t)
           ctx == Context(sel.stage, c.stages, o.data, o.history, o.startingPrompts)
       IN  [o |-> [o EXCEPT !.pc = "proposer",
                            !.stage = sel.stage,
                            !.executedStages = @ \cup {sel.stage},
                            !.ctx = Called(c.proposer, ctx),
                            !.attempt = 0,
                            !.picks = Append(@, [stage |-> sel.stage, mode |-> sel.mode]),
                            !.utils = UtilsOf(c.stages, o.executedStages, o.history,
                                              o.surrogates, t)],
            t |-> sel.t,
            calls |-> <<Call("proposer", o.iter, ctx)>>,
            result |-> Pending]
  ELSE Finish(c, o, t)

(* this.surrogates[stage].update(score) for a stage that has no surrogate   *)
(* (selectStage returned undefined): the trial is already pushed, the       *)
(* member access on undefined throws a TypeError and optimize rejects.      *)
NoSurrogate(o, trial, t) ==
  [o |-> [o EXCEPT !.pc = "failed", !.history = Append(@, trial)],
   t |-> t, calls |-> <<>>, result |-> Rejected(Err("TypeError", o.iter))]

\* The state after a step of optimizer i that ends as `step` says.
Becomes(i, step) ==
  /\ opt' = [opt EXCEPT ![i] = [step.o EXCEPT !.streamAt = step.t]]
  /\ rng' = [rng EXCEPT !.t = step.t]
  /\ calls' = [calls EXCEPT ![i] = @ \o step.calls]
  /\ result' = [result EXCEPT ![i] = step.result]
  /\ UNCHANGED cfg

\* new MIPROv2(...): the fields are set and seedRandom replaces Math.random.
Construct(i) ==
  /\ opt[i].pc = "new"
  /\ opt' = [opt EXCEPT ![i] =
               [Unbuilt EXCEPT !.pc = "idle",
                               !.surrogates = [stage \in Range(cfg[i].stages) |-> NewSurrogate],
                               !.streamAt = SeedState(cfg[i].randomSeed)]]
  /\ rng' = [seeded |-> TRUE, t |-> SeedState(cfg[i].randomSeed)]
  /\ UNCHANGED <<cfg, calls, result>>

\* optimize(options) is called: it runs up to `await this.loader()`.
Optimize(i) ==
  /\ opt[i].pc = "idle"
  /\ opt' = [opt EXCEPT ![i].pc = "loader"]
  /\ calls' = [calls EXCEPT ![i] = Append(@, Call("loader", -1, <<>>))]
  /\ UNCHANGED <<cfg, rng, result>>

(* The loader resolves: optimize stores the data, builds startingPrompts    *)
(* and best, and enters the loop.                                           *)
LoaderResolves(i) ==
  /\ opt[i].pc = "loader"
  /\ LET c  == cfg[i]
         sp == StartingPrompts(c.initialPrompts)
         o  == [opt[i] EXCEPT !.data = Items(c.dataSize),
                              !.startingPrompts = sp,
                              !.best = Sentinel(sp),
                              !.iter = 0]
     IN  Becomes(i, LoopHead(c, o, rng.t))

(* baseDelay * Math.pow(2, attempt) + Math.random() * 1000, the double the  *)
(* code computes when the draw of Math.random has numerator v: the product  *)
(* of the draw and 1000 is rounded, and so is the sum.                      *)
Delay(baseDelay, attempt, v) ==
  UAdd(RoundToDouble(IntBytes(baseDelay * (2 ^ attempt), 4), 0),
       UMul(UDraw(v), RoundToDouble(IntBytes(1000, 4), 0)))

\* withBackoff(fn, maxRetries = 3, ...): the retries of a request of llm.ts.
DefaultMaxRetries == 3

\* withBackoff(fn, maxRetries = 3, baseDelay = 1000).
DefaultBaseDelay == 1000

(* The request of llmProposer to OpenAI is rejected on an attempt that is   *)
(* not the last (attempt < maxRetries): the catch block of withBackoff      *)
(* computes the delay with one draw of Math.random, which is the seeded     *)
(* generator the optimizer draws from, sets the timer and awaits it.  The   *)
(* proposer call stays pending.  (The rejection of the last attempt is      *)
(* rethrown and rejects the proposer call: ProposerRaises.)                 *)
OpenAIRejects(i) ==
  /\ opt[i].pc = "proposer"
  /\ cfg[i].openai = "rejects"
  /\ Requests(cfg[i].proposer, opt[i].ctx)
  /\ ~opt[i].sleeping
  /\ opt[i].attempt < DefaultMaxRetries
  /\ opt' = [opt EXCEPT ![i].sleeping = TRUE,
                        ![i].delays = Append(@, Delay(DefaultBaseDelay, opt[i].attempt,
                                                      Mulberry(rng.t))),
                        ![i].streamAt = NextT(rng.t)]
  /\ rng' = [rng EXCEPT !.t = NextT(@)]
  /\ UNCHANGED <<cfg, calls, result>>

(* The timer of withBackoff fires: attempt++, and the request is sent to    *)
(* OpenAI again.                                                            *)
RetryTimerFires(i) ==
  /\ opt[i].pc = "proposer"
  /\ opt[i].sleeping
  /\ opt' = [opt EXCEPT ![i].sleeping = FALSE, ![i].attempt = @ + 1]
  /\ UNCHANGED <<cfg, rng, calls, result>>

\* A runner call that passes best.prompts, not the candidate of the iteration.
RunnerCallWithBest(o, k) ==
  Call("runner", o.iter, [item |-> o.batch[k], prompts |-> o.best.prompts])

\* this.runner(item, prompts) for the k-th item of the batch.
RunnerCall(o, k) ==
  Call("runner", o.iter, [item |-> o.batch[k], prompts |-> o.candidatePrompts])

(* The proposer resolves: optimize assembles the candidate, evaluatePrompts *)
(* samples the batch and awaits the runner on its first item, or, with an   *)
(* empty batch, the evaluator.                                              *)
ProposerResolves(i) ==
  /\ opt[i].pc = "proposer"
  /\ ~opt[i].sleeping
  /\ LET c == cfg[i]
         o == opt[i]
         candidatePrompt == Proposer(c.proposer, o.ctx)
         assembled == Assemble(o.best.prompts, o.stage, candidatePrompt)
         sample == SampleArray(o.data, c.batchSize, rng.t)
         o2 == [Shared(o, assembled.base) EXCEPT !.candidatePrompts = assembled.candidate,
                                                 !.data = sample.arr,
                                                 !.batch = sample.out,
                                                 !.outputs = <<>>]
     IN  IF Len(sample.out) > 0
         THEN Becomes(i, [o |-> [o2 EXCEPT !.pc = "runner"], t |-> sample.t,
                          calls |-> <<RunnerCall(o2, 1)>>,
                          result |-> Pending])
         ELSE Becomes(i, [o |-> [o2 EXCEPT !.pc = "evaluator"], t |-> sample.t,
                          calls |-> <<Call("evaluator", o.iter, <<>>)>>,
                          result |-> Pending])

\* The runner resolves: its output is pushed; the next item or the evaluator follows.
RunnerResolves(i) ==
  /\ opt[i].pc = "runner"
  /\ LET o == opt[i]
         item == o.batch[Len(o.outputs) + 1]
         outputs == Append(o.outputs, Runner(item, o.candidatePrompts))
     IN  IF Len(outputs) < Len(o.batch)
         THEN Becomes(i, [o |-> [o EXCEPT !.outputs = outputs], t |-> rng.t,
                          calls |-> <<RunnerCall(o, Len(outputs) + 1)>>,
                          result |-> Pending])
         ELSE Becomes(i, [o |-> [o EXCEPT !.outputs = outputs, !.pc = "evaluator"],
                          t |-> rng.t,
                          calls |-> <<Call("evaluator", o.iter, outputs)>>,
                          result |-> Pending])

(* The evaluator resolves with a score: the trial is recorded, the          *)
(* surrogate of the stage updated, best replaced on improvement; then the   *)
(* loop breaks on the target, or goes to its next iteration or its end.     *)
EvaluatorResolves(i) ==
  /\ opt[i].pc = "evaluator"
  /\ \E score \in EvaluatorResults(cfg[i].evaluator, opt[i].outputs) :
       LET c == cfg[i]
           o == [opt[i] EXCEPT !.returned = Append(@, score)]
           trial == NewTrial(o.iter, o.candidatePrompts, score)
           improved == Improves(score, o.best.score)
           o2 == [o EXCEPT !.history = Append(@, trial),
                           !.surrogates[o.stage] = Update(@, score),
                           !.best = IF improved THEN trial ELSE @]
       IN  IF o.stage \notin DOMAIN o.surrogates
           THEN Becomes(i, NoSurrogate(o, trial, rng.t))
           ELSE IF improved /\ ReachedTarget(score, c.earlyStopThreshold)
           THEN Becomes(i, Finish(c, o2, rng.t))
           ELSE Becomes(i, LoopHead(c, [o2 EXCEPT !.iter = @ + 1], rng.t))

(* A pending collaborator call of the loop or the loader raises: the await  *)
(* in optimize rethrows, nothing catches it, and the promise of optimize    *)
(* rejects with the error.  (A proposer or loader that throws from the call *)
(* itself does so inside the async function, with the same outcome.)  A     *)
(* call of llmProposer raises when OpenAI rejects the last attempt of       *)
(* withBackoff or gives no parsed answer, not while the timer is awaited.   *)
Raises(i, op) ==
  /\ opt[i].pc = op
  /\ ~opt[i].sleeping
  /\ \E how \in Raisings :
       LET err == Err(op, IF op = "loader" THEN -1 ELSE opt[i].iter)
       IN  /\ opt' = [opt EXCEPT ![i] = Aborted(@, [err |-> err, how |-> how])]
           /\ result' = [result EXCEPT ![i] = Surfaced(err)]
           /\ UNCHANGED <<cfg, rng, calls>>

\* this.loader() raises.
LoaderRaises(i) == Raises(i, "loader")

\* this.proposer(ctx) raises.
ProposerRaises(i) == Raises(i, "proposer")

\* this.runner(item, prompts) raises.
RunnerRaises(i) == Raises(i, "runner")

\* this.evaluator(outputs) raises.
EvaluatorRaises(i) == Raises(i, "evaluator")

(* ----------------------------- specifications -------------------------- *)

(* The configurations of one optimizer whose evaluator may return any       *)
(* score, with an OpenAI service that answers every request.                *)
SteadyConfigs ==
  { [stages |-> stages, initialPrompts |-> InitialPromptsFor(stages, promptKind),
     maxIterations |-> maxIterations, batchSize |-> 2, randomSeed |-> seed,
     dataSize |-> dataSize, earlyStopThreshold |-> threshold,
     proposer |-> proposer, evaluator |-> "any",
     outputter |-> "returns", openai |-> "answers"] :
      stages \in StageLists,
      promptKind \in {"prompt", "string"},
      maxIterations \in 0..MaxIter,
      seed \in Seeds,
      dataSize \in {0, 1, MaxData},
      threshold \in Thresholds,
      proposer \in {"contract", "fresh"} }

(* The same, and those in which OpenAI may reject requests of llmProposer   *)
(* before it answers, in runs of up to three iterations (two requests).     *)
Configs ==
  SteadyConfigs \cup
    { [c EXCEPT !.openai = "rejects"] :
        c \in {d \in SteadyConfigs : /\ d.proposer = "contract"
                                     /\ d.randomSeed = 42
                                     /\ d.earlyStopThreshold = Num(3)
                                     /\ d.dataSize = MaxData
                                     /\ d.maxIterations <= 3} }

\* One optimizer, not yet constructed; Math.random is the built-in one.
Init ==
  /\ cfg \in [{1} -> Configs]
  /\ rng = [seeded |-> FALSE, t |-> <<0, 0>>]
  /\ opt = [i \in {1} |-> Unbuilt]
  /\ calls = [i \in {1} |-> <<>>]
  /\ result = [i \in {1} |-> Pending]

Next ==
  \/ \E i \in Insts : Construct(i)
  \/ \E i \in Insts : Optimize(i)
  \/ \E i \in Insts : LoaderResolves(i)
  \/ \E i \in Insts : ProposerResolves(i)
  \/ \E i \in Insts : OpenAIRejects(i)
  \/ \E i \in Insts : RetryTimerFires(i)
  \/ \E i \in Insts : RunnerResolves(i)
  \/ \E i \in Insts : EvaluatorResolves(i)

Spec == Init /\ [][Next]_vars

(* Two optimizers given identical arguments and deterministic collaborators *)
(* in one process (OpenAI answers every request); they are constructed and  *)
(* run in any order, and their steps interleave at the awaits.              *)
TwinConfigs ==
  { [c EXCEPT !.evaluator = "weighted"] :
      c \in {d \in SteadyConfigs : /\ d.dataSize = MaxData
                             /\ d.maxIterations > 0
                             /\ d.proposer = "contract"
                             /\ d.initialPrompts[d.stages[1]].kind = "prompt"} }

InitTwo ==
  /\ \E c \in TwinConfigs : cfg = [i \in {1, 2} |-> c]
  /\ rng = [seeded |-> FALSE, t |-> <<0, 0>>]
  /\ opt = [i \in {1, 2} |-> Unbuilt]
  /\ calls = [i \in {1, 2} |-> <<>>]
  /\ result = [i \in {1, 2} |-> Pending]

\* The steps of optimizers whose collaborators await no timer.
NextSteady ==
  \/ \E i \in Insts : Construct(i)
  \/ \E i \in Insts : Optimize(i)
  \/ \E i \in Insts : LoaderResolves(i)
  \/ \E i \in Insts : ProposerResolves(i)
  \/ \E i \in Insts : RunnerResolves(i)
  \/ \E i \in Insts : EvaluatorResolves(i)

SpecTwo == InitTwo /\ [][NextSteady]_vars

(* One optimizer whose collaborators may raise: any pending call of the     *)
(* loader, the proposer, the runner or the evaluator, and the outputter as  *)
(* configured (it returns, throws, or returns a promise that rejects).      *)
Outputters == {"returns", "throws", "rejects"}

FailConfigs ==
  { [c EXCEPT !.outputter = outputter] :
      c \in {d \in Configs : /\ d.randomSeed = 42
                             /\ d.earlyStopThreshold = Num(3)
                             /\ d.proposer = "contract"
                             /\ d.initialPrompts[d.stages[1]].kind = "prompt"},
      outputter \in Outputters }

InitFail ==
  /\ cfg \in [{1} -> FailConfigs]
  /\ rng = [seeded |-> FALSE, t |-> <<0, 0>>]
  /\ opt = [i \in {1} |-> Unbuilt]
  /\ calls = [i \in {1} |-> <<>>]
  /\ result = [i \in {1} |-> Pending]

NextFail ==
  \/ \E i \in Insts : Construct(i)
  \/ \E i \in Insts : Optimize(i)
  \/ \E i \in Insts : LoaderResolves(i)
  \/ \E i \in Insts : ProposerResolves(i)
  \/ \E i \in Insts : OpenAIRejects(i)
  \/ \E i \in Insts : RetryTimerFires(i)
  \/ \E i \in Insts : RunnerResolves(i)
  \/ \E i \in Insts : EvaluatorResolves(i)
  \/ \E i \in Insts : LoaderRaises(i)
  \/ \E i \in Insts : ProposerRaises(i)
  \/ \E i \in Insts : RunnerRaises(i)
  \/ \E i \in Insts : EvaluatorRaises(i)

SpecFail == InitFail /\ [][NextFail]_vars

(* One optimizer constructed with arguments of any shape: no stages, an     *)
(* initialPrompts that lacks a declared stage, has an undeclared one or an  *)
(* empty string, a batchSize of 0, a negative maxIterations; and            *)
(* well-formed ones.                                                        *)
AnyConfigs ==
  { [stages |-> stages, initialPrompts |-> initialPrompts,
     maxIterations |-> maxIterations, batchSize |-> batchSize, randomSeed |-> 42,
     dataSize |-> dataSize, earlyStopThreshold |-> Num(3),
     proposer |-> "contract", evaluator |-> "any",
     outputter |-> "returns", openai |-> "rejects"] :
      stages \in {<<>>, <<"generate">>, <<"label", "explain">>},
      initialPrompts \in UNION {{InitialPromptsFor(st, "string"), InitialPromptsLacking(st),
                                 InitialPromptsWithExtra(st), InitialPromptsWithEmpty(st)} :
                                  st \in {<<"generate">>, <<"label", "explain">>}},
      maxIterations \in {-1, 0, 1, 2},
      batchSize \in {0, 2},
      dataSize \in {1, MaxData} }

InitAny ==
  /\ cfg \in [{1} -> AnyConfigs]
  /\ rng = [seeded |-> FALSE, t |-> <<0, 0>>]
  /\ opt = [i \in {1} |-> Unbuilt]
  /\ calls = [i \in {1} |-> <<>>]
  /\ result = [i \in {1} |-> Pending]

SpecAny == InitAny /\ [][Next]_vars

\* The maxIterations of the long single-stage runs.
MaxDeep == 5

(* One optimizer with a single stage and many iterations, so that its one   *)
(* surrogate collects up to MaxDeep scores.                                 *)
DeepConfigs ==
  { [stages |-> <<"generate">>, initialPrompts |-> InitialPromptsFor(<<"generate">>, "string"),
     maxIterations |-> MaxDeep, batchSize |-> 2, randomSeed |-> seed,
     dataSize |-> 1, earlyStopThreshold |-> Num(3),
     proposer |-> "contract", evaluator |-> "any",
     outputter |-> "returns", openai |-> "answers"] : seed \in Seeds }

InitDeep ==
  /\ cfg \in [{1} -> DeepConfigs]
  /\ rng = [seeded |-> FALSE, t |-> <<0, 0>>]
  /\ opt = [i \in {1} |-> Unbuilt]
  /\ calls = [i \in {1} |-> <<>>]
  /\ result = [i \in {1} |-> Pending]

SpecDeep == InitDeep /\ [][NextSteady]_vars

\* The largest number of optimize calls the model makes on one optimizer.
MaxRuns == 2

\* The optimize calls made so far on optimizer i.
RunsStarted(i) == Cardinality({n \in 1..Len(calls[i]) : calls[i][n].op = "loader"})

(* optimize(options) is called again on an optimizer whose previous call    *)
(* has ended: the fields of the object are as that call left them, the      *)
(* locals are new.                                                          *)
OptimizeAgain(i) ==
  /\ opt[i].pc = "done"
  /\ RunsStarted(i) < MaxRuns
  /\ opt' = [opt EXCEPT ![i].pc = "loader"]
  /\ calls' = [calls EXCEPT ![i] = Append(@, Call("loader", -1, <<>>))]
  /\ result' = [result EXCEPT ![i] = Pending]
  /\ UNCHANGED <<cfg, rng>>

\* One optimizer on which optimize is called up to MaxRuns times, one call after the other.
AgainConfigs ==
  {c \in SteadyConfigs : /\ c.maxIterations \in {1, 2}
                    /\ Len(c.stages) <= 2
                    /\ c.randomSeed = 42
                    /\ c.dataSize = 1
                    /\ c.earlyStopThreshold = Num(3)
                    /\ c.proposer = "contract"
                    /\ c.initialPrompts[c.stages[1]].kind = "string"}

InitAgain ==
  /\ cfg \in [{1} -> AgainConfigs]
  /\ rng = [seeded |-> FALSE, t |-> <<0, 0>>]
  /\ opt = [i \in {1} |-> Unbuilt]
  /\ calls = [i \in {1} |-> <<>>]
  /\ result = [i \in {1} |-> Pending]

NextAgain ==
  \/ \E i \in Insts : Construct(i)
  \/ \E i \in Insts : Optimize(i)
  \/ \E i \in Insts : OptimizeAgain(i)
  \/ \E i \in Insts : LoaderResolves(i)
  \/ \E i \in Insts : ProposerResolves(i)
  \/ \E i \in Insts : RunnerResolves(i)
  \/ \E i \in Insts : EvaluatorResolves(i)

SpecAgain == InitAgain /\ [][NextAgain]_vars

\* The maxIterations of the long two-stage runs.
MaxWide == 5

(* One optimizer with two stages and many iterations, so that both          *)
(* surrogates come to hold good and bad scores and the selector decides by  *)
(* density ratios.                                                          *)
WideConfigs ==
  { [stages |-> <<"label", "explain">>,
     initialPrompts |-> InitialPromptsFor(<<"label", "explain">>, "string"),
     maxIterations |-> MaxWide, batchSize |-> 2, randomSeed |-> seed,
     dataSize |-> 1, earlyStopThreshold |-> Num(3),
     proposer |-> "contract", evaluator |-> "any",
     outputter |-> "returns", openai |-> "answers"] : seed \in Seeds }

InitWide ==
  /\ cfg \in [{1} -> WideConfigs]
  /\ rng = [seeded |-> FALSE, t |-> <<0, 0>>]
  /\ opt = [i \in {1} |-> Unbuilt]
  /\ calls = [i \in {1} |-> <<>>]
  /\ result = [i \in {1} |-> Pending]

SpecWide == InitWide /\ [][NextSteady]_vars

(* --------------------------------- claims ------------------------------- *)

\* The optimizers whose optimize has passed `await this.loader()`.
Running == {i \in Insts : opt[i].pc \in {"proposer", "runner", "evaluator", "done"}}

\* The optimizers whose optimize has ended.
Ended == {i \in Insts : opt[i].pc = "done"}

\* The positions of the calls of a collaborator in the log of optimizer i.
CallsOf(i, op) == {n \in 1..Len(calls[i]) : calls[i][n].op = op}

\* TRUE iff the score is greater than the sentinel's -Infinity.
AboveSentinel(score) == Gt(score, NegInf)

(* TRUE iff history[k] is the earliest of the highest-scoring trials: no    *)
(* trial scores higher, and every earlier trial scores strictly lower or    *)
(* is NaN.                                                                  *)
EarliestHighest(history, k) ==
  /\ AboveSentinel(history[k].score)
  /\ \A j \in 1..Len(history) : ~Gt(history[j].score, history[k].score)
  /\ \A j \in 1..(k - 1) : history[j].score # history[k].score

(* C1, state part.  Best is the highest-scoring trial of History, the       *)
(* earliest one on ties; while no trial has scored above the sentinel's     *)
(* -Infinity, Best is still the sentinel over the starting prompts.         *)
BestIsEarliestHighest ==
  \A i \in Running :
    LET o == opt[i]
    IN  IF \E k \in 1..Len(o.history) : AboveSentinel(o.history[k].score)
        THEN \E k \in 1..Len(o.history) :
               o.best = o.history[k] /\ EarliestHighest(o.history, k)
        ELSE o.best = Sentinel(o.startingPrompts)

(* C1, step part.  Within a run Best is replaced only by the trial just     *)
(* recorded, and only when its score is strictly greater than Best.score.   *)
BestReplacedOnlyByStrictlyGreater ==
  \A i \in Running :
    opt'[i].best # opt[i].best =>
      /\ Len(opt'[i].history) = Len(opt[i].history) + 1
      /\ opt'[i].best = opt'[i].history[Len(opt'[i].history)]
      /\ Gt(opt'[i].best.score, opt[i].best.score)

(* C1.  Within one optimize run Best is replaced only by a trial whose      *)
(* score is strictly greater than the current Best.score; a later trial     *)
(* with an equal score never displaces the incumbent, so Best is the        *)
(* highest-scoring trial of History, ties broken by the earliest iteration. *)
C1_StrictImprovement ==
  []BestIsEarliestHighest /\ [][BestReplacedOnlyByStrictlyGreater]_vars

\* C1 witness: a later trial tied with Best, and Best is still the earlier one.
C1_Witness ==
  \E i \in Running :
    \E j, k \in 1..Len(opt[i].history) :
      /\ j < k
      /\ IsFinite(opt[i].best.score)
      /\ opt[i].best = opt[i].history[j]
      /\ opt[i].history[k].score = opt[i].best.score

\* C2 as stated: Best.score >= score(T) for every trial T in History.
C2_BestBoundsEveryTrial ==
  \A i \in Running :
    \A k \in 1..Len(opt[i].history) : Ge(opt[i].best.score, opt[i].history[k].score)

\* C2, state part: Best.score >= score(T) for every trial T whose score is not NaN.
BestScoreBoundsHistory ==
  \A i \in Running :
    \A k \in 1..Len(opt[i].history) :
      ~IsNaN(opt[i].history[k].score) => Ge(opt[i].best.score, opt[i].history[k].score)

\* C2, step part: Best.score never decreases from one step of a run to the next.
BestScoreNeverDecreases ==
  \A i \in Running : Ge(opt'[i].best.score, opt[i].best.score)

(* C2, amended.  At every iteration boundary Best.score >= score(T) for     *)
(* every trial T in History whose score is not NaN (a NaN score is recorded *)
(* and compares with nothing), and the Best.score values over the           *)
(* iterations are non-decreasing.                                           *)
C2_BestDominates ==
  []BestScoreBoundsHistory /\ [][BestScoreNeverDecreases]_vars

\* C2 witness: Best improved twice and a later, lower trial left it in place.
C2_Witness ==
  \E i \in Running :
    /\ Len(opt[i].history) = 3
    /\ opt[i].best = opt[i].history[2]
    /\ Gt(opt[i].history[2].score, opt[i].history[1].score)
    /\ AboveSentinel(opt[i].history[1].score)
    /\ Gt(opt[i].history[2].score, opt[i].history[3].score)

\* The calls optimize makes inside its loop.
LoopOps == {"proposer", "runner", "evaluator"}

(* C3.  The loop stops at the first iteration whose score is >= the early   *)
(* stop threshold: a trial with such a score is the last of History (so     *)
(* History length is its index + 1), the run has ended, no Proposer, Runner *)
(* or Evaluator call was made after that iteration, and the Outputter       *)
(* received that iteration's candidate prompts.                             *)
C3_StopsAtFirstTarget ==
  \A i \in Running :
    \A k \in 1..Len(opt[i].history) :
      Ge(opt[i].history[k].score, cfg[i].earlyStopThreshold) =>
        /\ k = Len(opt[i].history)
        /\ opt[i].pc = "done"
        /\ \A n \in 1..Len(calls[i]) :
             calls[i][n].op \in LoopOps => calls[i][n].iter <= k - 1
        /\ calls[i][Len(calls[i])].op = "outputter"
        /\ calls[i][Len(calls[i])].arg = opt[i].history[k].prompts
        /\ opt[i].best = opt[i].history[k]

\* C3 witness: a run stopped by its second trial with iterations to spare.
C3_Witness ==
  \E i \in Ended :
    /\ Len(opt[i].history) = 2
    /\ cfg[i].maxIterations > 2
    /\ opt[i].history[2].score = cfg[i].earlyStopThreshold

\* The evaluator calls of optimizer i that have resolved.
Completed(i) ==
  Cardinality(CallsOf(i, "evaluator")) - (IF opt[i].pc = "evaluator" THEN 1 ELSE 0)

(* C4.  |History| <= max_iterations, each Trial.iteration equals its        *)
(* position in History, and after N completed iterations History holds      *)
(* exactly N trials, in iteration order.                                    *)
C4_HistoryShape ==
  \A i \in Insts :
    /\ Len(opt[i].history) <= cfg[i].maxIterations
    /\ \A k \in 1..Len(opt[i].history) : opt[i].history[k].iteration = k - 1
    /\ Len(opt[i].history) = Completed(i)

\* C4 witness: a run that used all of its three iterations.
C4_Witness ==
  \E i \in Ended :
    /\ cfg[i].maxIterations = 3
    /\ Len(opt[i].history) = 3
    /\ Completed(i) = 3

(* C5.  In a run that ends, the Outputter is called exactly once, as the    *)
(* last call, after the last iteration, with Best.prompts as of             *)
(* termination; it is never called before or during the loop.               *)
C5_OutputterOnceAtEnd ==
  \A i \in Insts :
    IF opt[i].pc = "done"
    THEN /\ CallsOf(i, "outputter") = {Len(calls[i])}
         /\ calls[i][Len(calls[i])].arg = opt[i].best.prompts
    ELSE CallsOf(i, "outputter") = {}

\* C5 witness: a run ended whose Best is not its last trial.
C5_Witness ==
  \E i \in Ended :
    /\ Len(opt[i].history) >= 2
    /\ opt[i].best.iteration >= 0
    /\ opt[i].best.prompts # opt[i].history[Len(opt[i].history)].prompts
    /\ Cardinality(CallsOf(i, "outputter")) = 1

(* C6.  optimize returns the best PromptSet to its caller: the promise it   *)
(* returned is fulfilled with Best.prompts as of termination, the value     *)
(* also passed to the Outputter.                                            *)
C6_ReturnsBestPrompts ==
  \A i \in Ended :
    /\ result[i].state = "fulfilled"
    /\ result[i].kind = "value"
    /\ result[i].value = opt[i].best.prompts
    /\ result[i].value = calls[i][Len(calls[i])].arg

(* C7.  With max_iterations = 0 the loop body never executes: Proposer,     *)
(* Runner and Evaluator are never called, History stays empty, the          *)
(* Outputter is invoked exactly once with the normalized initial PromptSet, *)
(* and optimize returns that initial set.                                   *)
C7_ZeroIterations ==
  \A i \in Ended :
    cfg[i].maxIterations = 0 =>
      /\ \A op \in LoopOps : CallsOf(i, op) = {}
      /\ opt[i].history = <<>>
      /\ Cardinality(CallsOf(i, "outputter")) = 1
      /\ calls[i][Len(calls[i])].op = "outputter"
      /\ calls[i][Len(calls[i])].arg =
           [stage \in DOMAIN cfg[i].initialPrompts |->
              MkPrompt(cfg[i].initialPrompts[stage].instruction)]
      /\ result[i].kind = "value"
      /\ result[i].value = calls[i][Len(calls[i])].arg

(* C8.  If the Evaluator returns a non-finite value (NaN, +Infinity or      *)
(* -Infinity), the trial is appended to History with that score unchanged   *)
(* and Best is not updated by that iteration: Best is never a trial whose   *)
(* score is not finite.                                                     *)
C8_NonFiniteNeverBest ==
  \A i \in Running :
    \A k \in 1..Len(opt[i].history) :
      ~IsFinite(opt[i].history[k].score) => opt[i].best # opt[i].history[k]

\* The stages picked by the first n selections of optimizer i.
PickedBy(i, n) == {opt[i].picks[k].stage : k \in 1..n}

(* C9.  While a declared stage has never been selected, the selector        *)
(* returns only a stage not yet in executed_stages: the first |stages|      *)
(* selections pick each declared stage exactly once, and the utilities      *)
(* (roulette or fallback) decide only from selection |stages| on.           *)
C9_UnexecutedFirst ==
  \A i \in Insts :
    \A k \in 1..Len(opt[i].picks) :
      IF k <= Len(cfg[i].stages)
      THEN /\ opt[i].picks[k].mode = "unexecuted"
           /\ opt[i].picks[k].stage \in Range(cfg[i].stages) \ PickedBy(i, k - 1)
      ELSE /\ opt[i].picks[k].mode \in {"roulette", "fallback"}
           /\ PickedBy(i, k - 1) = Range(cfg[i].stages)

\* C9 witness: two stages, each picked once, then a pick by the utilities.
C9_Witness ==
  \E i \in Insts :
    /\ Len(cfg[i].stages) = 2
    /\ Len(opt[i].picks) = 3
    /\ opt[i].picks[1].stage # opt[i].picks[2].stage
    /\ opt[i].picks[3].mode = "roulette"

(* C10.  Given identical seed, dataset, options and deterministic           *)
(* collaborators, two optimize runs on fresh optimizer instances produce    *)
(* identical Histories (same stage picks, same batches, same trials) and    *)
(* equal results, whatever the order in which the two instances are         *)
(* constructed and run.                                                     *)
C10_TwinRunsAgree ==
  (Insts = {1, 2} /\ Ended = {1, 2} /\ cfg[1] = cfg[2]) =>
    /\ opt[1].history = opt[2].history
    /\ opt[1].picks = opt[2].picks
    /\ calls[1] = calls[2]
    /\ result[1] = result[2]

\* The optimizers one of whose collaborators has raised.
Struck == {i \in Insts : Len(opt[i].raised) > 0}

(* C11.  Any exception raised by the DataLoader, Proposer, Runner,          *)
(* Evaluator or Outputter, thrown or as a rejected promise, is surfaced     *)
(* unchanged to the caller of optimize: the promise of optimize is rejected *)
(* with that very error, the failing call is the last collaborator call     *)
(* (no retry, nothing after it), and nothing raises a second time.          *)
C11_RaisedIsSurfaced ==
  \A i \in Struck :
    LET err == opt[i].raised[1].err
        last == calls[i][Len(calls[i])]
    IN  /\ result[i] = Rejected(err)
        /\ last.op = err.op /\ last.iter = err.iter
        /\ Len(opt[i].raised) = 1

\* In this step the Proposer, the Runner or the Evaluator of optimizer i raises.
LoopAborts(i) ==
  /\ opt[i].pc \in LoopOps
  /\ opt'[i].pc = "failed"
  /\ opt'[i].raised[Len(opt'[i].raised)].err.op \in LoopOps

(* C12.  No partial commit: when the Proposer, a Runner call or the         *)
(* Evaluator raises during iteration n, control leaves optimize with        *)
(* History holding exactly the n trials of the completed iterations, the    *)
(* surrogates holding exactly their n scores and none for iteration n, and  *)
(* Best what it was at the end of iteration n - 1.                          *)
NoPartialCommit ==
  \A i \in Insts :
    LoopAborts(i) =>
      /\ opt'[i].history = opt[i].history
      /\ Len(opt'[i].history) = opt[i].iter
      /\ \A k \in 1..Len(opt'[i].history) : opt'[i].history[k].iteration < opt[i].iter
      /\ opt'[i].surrogates = opt[i].surrogates
      /\ opt'[i].best = opt[i].best
      /\ opt'[i].best.iteration < opt[i].iter

C12_NoPartialCommit == [][NoPartialCommit]_vars

\* C12 witness: the evaluator raised in the third iteration, after Best had improved.
C12_Witness ==
  \E i \in Struck :
    /\ opt[i].raised[1].err = Err("evaluator", 2)
    /\ Len(opt[i].history) = 2
    /\ opt[i].best.iteration >= 0

\* TRUE iff the spec calls the arguments c a configuration error.
Misconfigured(c) ==
  \/ Len(c.stages) = 0
  \/ \E stage \in Range(c.stages) : stage \notin DOMAIN c.initialPrompts
  \/ c.batchSize < 1
  \/ c.maxIterations < 0

(* C13.  A ConfigurationError is raised at INIT, before any collaborator    *)
(* is called, whenever stages is empty, initial_prompts lacks a declared    *)
(* stage, batch_size < 1 or max_iterations < 0: no collaborator call is     *)
(* ever made, and an optimize that was called has rejected with the error.  *)
C13_MisconfiguredIsRejected ==
  \A i \in Insts :
    Misconfigured(cfg[i]) =>
      /\ calls[i] = <<>>
      /\ opt[i].pc \notin {"new", "idle"} =>
            /\ result[i].state = "rejected"
            /\ result[i].value.op = "ConfigurationError"

(* C15.  Every PromptSet handled by the optimizer (the normalized initial   *)
(* set, every candidate passed to the Runner, every Trial.prompts in        *)
(* History and the set given to the Outputter) has keys exactly equal to    *)
(* the declared stage set: no missing stages and no extras.                 *)
C15_KeysAreStages ==
  \A i \in Running :
    LET declared == Range(cfg[i].stages)
    IN  /\ DOMAIN opt[i].startingPrompts = declared
        /\ opt[i].pc \in {"runner", "evaluator"} => DOMAIN opt[i].candidatePrompts = declared
        /\ \A k \in 1..Len(opt[i].history) : DOMAIN opt[i].history[k].prompts = declared
        /\ \A n \in CallsOf(i, "outputter") : DOMAIN calls[i][n].arg = declared

\* In this step optimizer i assembles the candidate PromptSet of an iteration.
Assembles(i) == opt[i].pc = "proposer" /\ opt'[i].pc \in {"runner", "evaluator"}

(* C14.  The candidate PromptSet of an iteration that selected stage s is   *)
(* a fresh mapping equal to Best.prompts (Best as of the start of that      *)
(* iteration, not the previous trial) at every stage other than s and equal *)
(* to the Proposer's returned Prompt at s; building it leaves Best.prompts  *)
(* and every PromptSet already in History unchanged.                        *)
CandidateIsBestWithOneStage ==
  \A i \in Insts :
    Assembles(i) =>
      LET stage == opt[i].stage
          candidate == opt'[i].candidatePrompts
      IN  /\ DOMAIN candidate = DOMAIN opt[i].best.prompts \cup {stage}
          /\ candidate[stage] = Proposer(cfg[i].proposer, opt[i].ctx)
          /\ \A key \in DOMAIN candidate \ {stage} : candidate[key] = opt[i].best.prompts[key]
          /\ opt'[i].best = opt[i].best
          /\ opt'[i].history = opt[i].history
          /\ opt'[i].startingPrompts = opt[i].startingPrompts

C14_CandidateAssembly == [][CandidateIsBestWithOneStage]_vars

(* C14 witness: a candidate that differs from the previous trial at a stage *)
(* it did not select, while Best holds an earlier trial with other prompts. *)
C14_Witness ==
  \E i \in Insts :
    /\ opt[i].pc \in {"runner", "evaluator"}
    /\ Len(opt[i].history) >= 2
    /\ opt[i].best.iteration >= 0
    /\ opt[i].best # opt[i].history[Len(opt[i].history)]
    /\ opt[i].best.prompts[opt[i].stage] # opt[i].candidatePrompts[opt[i].stage]
    /\ \E key \in DOMAIN opt[i].candidatePrompts \ {opt[i].stage} :
         opt[i].candidatePrompts[key] # opt[i].history[Len(opt[i].history)].prompts[key]

\* The smaller of two numbers.
Min(a, b) == IF a < b THEN a ELSE b

(* C18.  The batch drawn for an iteration holds exactly                     *)
(* min(batch_size, |dataset|) items taken from pairwise distinct positions  *)
(* of the dataset, and drawing it leaves the dataset unchanged in content   *)
(* and order.                                                               *)
C18_BatchWithoutReplacement ==
  \A i \in Running :
    /\ opt[i].data = Items(cfg[i].dataSize)
    /\ opt[i].pc \in {"runner", "evaluator"} =>
          /\ Len(opt[i].batch) = Min(cfg[i].batchSize, cfg[i].dataSize)
          /\ \A j, k \in 1..Len(opt[i].batch) : j # k => opt[i].batch[j] # opt[i].batch[k]
          /\ \A k \in 1..Len(opt[i].batch) :
               \E n \in 1..Len(opt[i].data) : opt[i].data[n] = opt[i].batch[k]

\* C18 witness: one batch of two distinct items of three, one batch of a dataset of one.
C18_Witness ==
  \E i \in Running :
    /\ opt[i].pc = "evaluator"
    /\ \/ Len(opt[i].data) = MaxData /\ Len(opt[i].batch) = 2 /\ Len(opt[i].history) >= 1
       \/ Len(opt[i].data) = 1 /\ Len(opt[i].batch) = 1 /\ cfg[i].batchSize = 2

\* How many times x occurs in seq.
Count(seq, x) == Cardinality({k \in 1..Len(seq) : seq[k] = x})

\* The scores of the first n trials of optimizer i that mutated the stage, in order.
RECURSIVE ScoresOn(_, _, _)
ScoresOn(i, stage, n) ==
  IF n = 0 THEN <<>>
  ELSE IF opt[i].picks[n].stage = stage
       THEN Append(ScoresOn(i, stage, n - 1), opt[i].history[n].score)
       ELSE ScoresOn(i, stage, n - 1)

\* C16, state part: per stage, good and bad together hold exactly the scores of its trials.
SurrogatesHoldStageScores ==
  \A i \in Running :
    \A stage \in Range(cfg[i].stages) :
      \A x \in Scores :
        Count(opt[i].surrogates[stage].good \o opt[i].surrogates[stage].bad, x)
          = Count(ScoresOn(i, stage, Len(opt[i].history)), x)

\* The number of scores a surrogate holds.
Held(sur) == Len(sur.good) + Len(sur.bad)

(* C16, step part: a step that records a trial adds its score to exactly    *)
(* one surrogate, that of the mutated stage; no step removes or reorders    *)
(* what a surrogate holds.                                                  *)
OneScorePerTrial ==
  \A i \in Running :
    LET grown == {stage \in Range(cfg[i].stages) :
                    opt'[i].surrogates[stage] # opt[i].surrogates[stage]}
    IN  IF Len(opt'[i].history) = Len(opt[i].history) + 1
        THEN /\ grown = {opt[i].stage}
             /\ \E score \in Scores :
                  /\ score = opt'[i].history[Len(opt'[i].history)].score
                  /\ \/ opt'[i].surrogates[opt[i].stage] =
                          [opt[i].surrogates[opt[i].stage] EXCEPT !.good = Append(@, score)]
                     \/ opt'[i].surrogates[opt[i].stage] =
                          [opt[i].surrogates[opt[i].stage] EXCEPT !.bad = Append(@, score)]
        ELSE grown = {}

(* C16.  For every stage s the multiset of scores in Surrogate[s].good and  *)
(* Surrogate[s].bad together equals the multiset of the scores of the       *)
(* trials of History in which s was the mutated stage; each trial adds      *)
(* exactly one score to exactly one surrogate and nothing is ever removed.  *)
C16_SurrogateScores == []SurrogatesHoldStageScores /\ [][OneScorePerTrial]_vars

\* C16 witness: a stage mutated twice, one score in good and one in bad, another stage once.
C16_Witness ==
  \E i \in Running :
    \E s1, s2 \in Range(cfg[i].stages) :
      /\ s1 # s2
      /\ Len(opt[i].surrogates[s1].good) = 1 /\ Len(opt[i].surrogates[s1].bad) = 1
      /\ Held(opt[i].surrogates[s2]) = 1
      /\ Len(opt[i].history) = 3

\* a <= b in the order of the extended reals; neither is NaN.
Le(a, b) == ~Gt(a, b)

\* The observations in non-decreasing order; none is NaN.
RECURSIVE Ascending(_)
Ascending(obs) ==
  IF Len(obs) = 0 THEN <<>>
  ELSE LET k == CHOOSE k \in 1..Len(obs) : \A j \in 1..Len(obs) : Le(obs[k], obs[j])
       IN  <<obs[k]>> \o Ascending(SubSeq(obs, 1, k - 1) \o SubSeq(obs, k + 1, Len(obs)))

\* The observations that are numbers or infinities.
WithoutNaN(obs) == SelectSeq(obs, LAMBDA x : ~IsNaN(x))

(* Twice the median of observations none of which is NaN: the middle one of *)
(* an odd number, the mean of the two middle ones of an even number;        *)
(* undefined (NaN) when there are none or when the two middle ones are the  *)
(* opposite infinities.                                                     *)
MedianOfObservations2(obs) ==
  IF Len(obs) = 0 THEN NaN
  ELSE LET sorted == Ascending(obs)
           mid    == Len(obs) \div 2
       IN  IF Len(obs) % 2 = 1
           THEN Add(sorted[mid + 1], sorted[mid + 1])
           ELSE Add(sorted[mid], sorted[mid + 1])

(* The values "the median of all prior observations" may have when some     *)
(* observations are NaN: undefined, or the median of the others.            *)
MediansOfPrior2(obs) ==
  IF \E k \in 1..Len(obs) : IsNaN(obs[k])
  THEN {NaN, MedianOfObservations2(WithoutNaN(obs))}
  ELSE {MedianOfObservations2(obs)}

\* TRUE iff C17 sends the score to good when twice the median of the prior observations is median2.
GoesToGood(median2, score) == IsNaN(median2) \/ Ge(Add(score, score), median2)

(* The surrogates that classifying the first n of the scores as C17 says    *)
(* may give (one, unless a NaN was observed).                               *)
RECURSIVE Classified(_, _)
Classified(scores, n) ==
  IF n = 0 THEN {[good |-> <<>>, bad |-> <<>>]}
  ELSE { IF GoesToGood(median2, scores[n])
         THEN [before EXCEPT !.good = Append(@, scores[n])]
         ELSE [before EXCEPT !.bad = Append(@, scores[n])] :
           before \in Classified(scores, n - 1),
           median2 \in MediansOfPrior2(SubSeq(scores, 1, n - 1)) }

(* C17.  Surrogate.update(score) appends the score to good iff the          *)
(* surrogate has no prior observations (median undefined) or score >= the   *)
(* median of all prior observations (good and bad together, ties to good),  *)
(* and otherwise to bad; so every element of good is >= the median of the   *)
(* observations made before it.                                             *)
C17_MedianSplit ==
  \A i \in Running :
    \A stage \in Range(cfg[i].stages) :
      LET scores == ScoresOn(i, stage, Len(opt[i].history))
      IN  opt[i].surrogates[stage] \in Classified(scores, Len(scores))

\* The stages of the proposer calls of optimizer i before its call number n.
ProposedBefore(i, n) == {calls[i][m].arg.stageName : m \in {m \in CallsOf(i, "proposer") : m < n}}

(* C19.  For each declared stage, in runs with one or several stages, the   *)
(* Proposer call made on that stage's first selection receives              *)
(* past_attempts = [].                                                      *)
C19_FirstSelectionHasNoPast ==
  \A i \in Insts :
    \A n \in CallsOf(i, "proposer") :
      calls[i][n].arg.stageName \notin ProposedBefore(i, n) =>
        calls[i][n].arg.pastAttempts = <<>>

(* C20.  Every call of optimize starts from INIT state: History empty,      *)
(* executed_stages empty and a fresh Surrogate per declared stage, also for *)
(* a second call on the same optimizer, to which the trials, executed       *)
(* stages and surrogate observations of the earlier call are not visible.   *)
C20_EveryCallStartsFresh ==
  \A i \in Insts :
    opt[i].pc = "loader" =>
      /\ opt[i].history = <<>>
      /\ opt[i].executedStages = {}
      /\ \A stage \in Range(cfg[i].stages) : opt[i].surrogates[stage] = NewSurrogate

\* C21, step part: the trials recorded before a step are, unchanged and in order, the first trials after it.
HistoryOnlyGrows ==
  \A i \in Insts :
    /\ Len(opt'[i].history) \in {Len(opt[i].history), Len(opt[i].history) + 1}
    /\ SubSeq(opt'[i].history, 1, Len(opt[i].history)) = opt[i].history

(* C21.  History is append-only: once a Trial is recorded, its iteration,   *)
(* its prompts (the mapping and each Prompt in it) and its score never      *)
(* change, and it is never removed or reordered by a later iteration, by    *)
(* candidate assembly, by building the proposer context or by a Best        *)
(* update.                                                                  *)
C21_HistoryAppendOnly == [][HistoryOnlyGrows]_vars

(* C21 witness: three trials recorded, Best the first of them, and a        *)
(* candidate assembled from Best after the other two were recorded.         *)
C21_Witness ==
  \E i \in Insts :
    /\ opt[i].pc = "done"
    /\ Len(opt[i].history) = 3
    /\ opt[i].best = opt[i].history[1]
    /\ opt[i].history[2].prompts # opt[i].history[1].prompts
    /\ opt[i].history[3].prompts # opt[i].history[2].prompts

\* The number of observations the surrogates of the stages[1..n] hold together.
RECURSIVE Observations(_, _, _)
Observations(surrogates, stages, n) ==
  IF n = 0 THEN 0
  ELSE Held(surrogates[stages[n]]) + Observations(surrogates, stages, n - 1)

(* The trial a strict-improvement scan of history[1..n] ends with, from     *)
(* start: a trial replaces the incumbent iff its score is strictly greater. *)
RECURSIVE StrictMaximum(_, _, _)
StrictMaximum(history, n, start) ==
  IF n = 0 THEN start
  ELSE LET incumbent == StrictMaximum(history, n - 1, start)
       IN  IF Gt(history[n].score, incumbent.score) THEN history[n] ELSE incumbent

\* The optimizers whose optimize is suspended at an await of its loop.
SuspendedInLoop == {i \in Insts : opt[i].pc \in LoopOps}

(* C22.  History append, Surrogate update and Best update of an iteration   *)
(* happen with no suspension point between them: wherever the optimizer is  *)
(* suspended on a collaborator, |History| equals the number of iterations   *)
(* completed and the total number of observations over all surrogates, and  *)
(* Best is the strict-improvement maximum of the trials in History.         *)
C22_CommitIsAtomic ==
  \A i \in SuspendedInLoop :
    /\ Len(opt[i].history) = opt[i].iter
    /\ Len(opt[i].history) = Observations(opt[i].surrogates, cfg[i].stages, Len(cfg[i].stages))
    /\ opt[i].best = StrictMaximum(opt[i].history, Len(opt[i].history),
                                   Sentinel(opt[i].startingPrompts))

(* C22 witness: suspended on the runner of the third iteration, with two    *)
(* trials on two different stages recorded and Best the second of them.     *)
C22_Witness ==
  \E i \in SuspendedInLoop :
    /\ opt[i].pc = "runner"
    /\ Len(opt[i].history) = 2
    /\ opt[i].best = opt[i].history[2]
    /\ opt[i].picks[1].stage # opt[i].picks[2].stage

\* TRUE iff call c may directly follow call p in the log of a run.
Follows(p, c) ==
  CASE c.op = "proposer" ->
         \/ p.op = "loader" /\ c.iter = 0
         \/ p.op = "evaluator" /\ c.iter = p.iter + 1
    [] c.op \in {"runner", "evaluator"} -> p.op \in {"proposer", "runner"} /\ c.iter = p.iter
    [] c.op = "outputter" -> p.op \in {"loader", "evaluator"}
    [] OTHER -> FALSE

\* The runner calls of iteration k of optimizer i, in the order they were made.
RunsOf(i, k) == SelectSeq(calls[i], LAMBDA c : c.op = "runner" /\ c.iter = k)

(* C23, state part: the log of a run is one loader call, then per iteration *)
(* one proposer call, the runner calls and one evaluator call.  The runner  *)
(* calls of an iteration take the items of its batch in batch order, each   *)
(* with the candidate of the iteration, the next one only once the previous *)
(* one has resolved; the evaluator gets their outputs in that order.        *)
CallProtocol ==
  \A i \in Insts :
    LET log == calls[i]
        o == opt[i]
        now == RunsOf(i, o.iter)
    IN  /\ o.pc \notin {"new", "idle"} => CallsOf(i, "loader") = {1}
        /\ \A n \in 2..Len(log) : Follows(log[n - 1], log[n])
        /\ \A n \in CallsOf(i, "evaluator") :
             LET runs == RunsOf(i, log[n].iter)
             IN  /\ Len(runs) = Min(cfg[i].batchSize, cfg[i].dataSize)
                 /\ log[n].arg = [j \in 1..Len(runs) |-> Runner(runs[j].arg.item, runs[j].arg.prompts)]
                 /\ \A j \in 1..Len(runs) :
                      log[n].iter < Len(o.history) =>
                        runs[j].arg.prompts = o.history[log[n].iter + 1].prompts
        /\ o.pc \in {"runner", "evaluator"} =>
             /\ [j \in 1..Len(now) |-> now[j].arg.item] = SubSeq(o.batch, 1, Len(now))
             /\ \A j \in 1..Len(now) : now[j].arg.prompts = o.candidatePrompts
             /\ Len(now) = IF o.pc = "runner" THEN Len(o.outputs) + 1 ELSE Len(o.batch)
             /\ o.pc = "evaluator" => log[Len(log)].arg = o.outputs

(* C23, step part: a call of the loop is made for iteration k only when the *)
(* k iterations before it have committed their trials.                      *)
StartsAfterCommit ==
  \A i \in Insts :
    \A n \in (Len(calls[i]) + 1)..Len(calls'[i]) :
      calls'[i][n].op \in LoopOps => calls'[i][n].iter = Len(opt'[i].history)

(* C23.  Collaborator call protocol of a run: the DataLoader is invoked     *)
(* exactly once, before the first iteration; in each iteration exactly one  *)
(* Proposer call completes before the first Runner call, the Runner is      *)
(* invoked once per batch item, one at a time in batch order with the       *)
(* iteration's candidate, and the Evaluator exactly once, after the last    *)
(* Runner call, with the outputs in batch order; no call of iteration i+1   *)
(* starts before iteration i has committed.                                 *)
C23_CallProtocol == []CallProtocol /\ [][StartsAfterCommit]_vars

(* C23 witness: a run of two iterations ended, each with a batch of two     *)
(* items run in a different order and with a different candidate.           *)
C23_Witness ==
  \E i \in Ended :
    /\ Len(opt[i].history) = 2
    /\ Len(RunsOf(i, 0)) = 2 /\ Len(RunsOf(i, 1)) = 2
    /\ RunsOf(i, 0)[1].arg.item # RunsOf(i, 1)[1].arg.item
    /\ RunsOf(i, 0)[1].arg.prompts # RunsOf(i, 1)[1].arg.prompts
    /\ RunsOf(i, 1)[1].arg.prompts # opt[i].best.prompts

\* The optimizers whose latest selectStage call decided by the utilities.
ByUtility == {i \in Insts : Len(opt[i].picks) > 0 /\ Len(opt[i].utils) > 0}

\* The latest pick of optimizer i.
LastPick(i) == opt[i].picks[Len(opt[i].picks)]

\* TRUE iff the utility is the number 0.
IsZero(u) == u = UZero

(* C24.  Once every stage has been executed, if the sum of the stages'      *)
(* utilities is 0 or not finite (utilities are never infinite, so: NaN),    *)
(* the selector falls back to uniform random selection over all declared    *)
(* stages: the stage is picked by the uniform draw over the stage indices   *)
(* at the end of selectStage, not by the roulette loop.                     *)
C24_DegenerateTotalFallsBack ==
  \A i \in ByUtility :
    LET total == Total(opt[i].utils, Len(opt[i].utils))
    IN  (total.nan \/ IsZero(total)) => LastPick(i).mode = "fallback"

\* TRUE iff the utility is a finite number greater than 0.
IsPositive(u) == ~u.nan /\ ~IsZeroBytes(u.n)

(* C25.  A NaN utility returned by a stage's surrogate is treated as 0 by   *)
(* the selector: that stage contributes nothing to the total, and the       *)
(* remaining stages with positive finite utility are still sampled in       *)
(* proportion to their utilities.  So when some utility is NaN and some     *)
(* other is positive, the roulette loop picks, and picks a stage whose      *)
(* utility is positive.                                                     *)
C25_NaNUtilityCountsAsZero ==
  \A i \in ByUtility :
    LET utils == opt[i].utils
    IN  ((\E k \in 1..Len(utils) : utils[k].nan) /\ (\E k \in 1..Len(utils) : IsPositive(utils[k])))
          => /\ LastPick(i).mode = "roulette"
             /\ \E k \in 1..Len(utils) :
                  cfg[i].stages[k] = LastPick(i).stage /\ IsPositive(utils[k])

\* TRUE iff good or bad of the surrogate is empty.
Unfitted(sur) == Len(sur.good) = 0 \/ Len(sur.bad) = 0

\* The closure variable of the seeded Math.random after n more draws.
RECURSIVE Advance(_, _)
Advance(t, n) == IF n = 0 THEN t ELSE Advance(NextT(t), n - 1)

\* How many of the stages[1..n] have an unfitted surrogate.
UnfittedAmong(surrogates, stages, n) ==
  Cardinality({j \in 1..n : Unfitted(surrogates[stages[j]])})

(* The values parzen(score, good) / (parzen(score, bad) + 1e-6) may have    *)
(* for a fitted surrogate: NaN when the score is NaN or an observation is   *)
(* not finite, 0 when the score is infinite, else a finite ratio.           *)
DensityRatios(sur, score) ==
  IF IsNaN(score) \/ HasNonFinite(sur.good) \/ HasNonFinite(sur.bad) THEN {UNaN}
  ELSE IF ~IsFinite(score) THEN {UZero}
  ELSE {KdeRatio(sur.good, sur.bad, score)}

\* In this step optimizer i runs selectStage, and selectStage reads the utilities.
SelectsByUtility(i) == Len(opt'[i].picks) = Len(opt[i].picks) + 1 /\ Len(opt'[i].utils) > 0

(* C30, as a step property.  In a selection that reads the utilities, the   *)
(* utility of a stage whose surrogate is unfitted is the next draw of the   *)
(* seeded PRNG, a number in [0, 1), and the utility of a fitted surrogate   *)
(* is its density ratio and consumes no draw: the utilities of the stages   *)
(* are the successive draws, one per unfitted surrogate, and the whole      *)
(* selection consumes those draws, one for the roulette and one more if it  *)
(* falls back.  No surrogate changes but by the update of the recorded      *)
(* trial.                                                                   *)
UtilityDrawsIffUnfitted ==
  \A i \in Insts :
    SelectsByUtility(i) =>
      LET stages == cfg[i].stages
          surrogates == opt'[i].surrogates
          utils == opt'[i].utils
          lastScore == LastScore(opt'[i].history)
          spent == UnfittedAmong(surrogates, stages, Len(stages)) + 1
                     + (IF opt'[i].picks[Len(opt'[i].picks)].mode = "fallback" THEN 1 ELSE 0)
      IN  /\ Len(utils) = Len(stages)
          /\ \A k \in 1..Len(stages) :
               IF Unfitted(surrogates[stages[k]])
               THEN /\ utils[k] = UDraw(Mulberry(Advance(rng.t, UnfittedAmong(surrogates, stages, k - 1))))
                    /\ utils[k].e < -52
               ELSE utils[k] \in DensityRatios(surrogates[stages[k]], lastScore)
          /\ rng'.t = Advance(rng.t, spent)
          /\ \A stage \in Range(stages) :
               surrogates[stage] # opt[i].surrogates[stage] =>
                 /\ stage = opt[i].stage
                 /\ Held(surrogates[stage]) = Held(opt[i].surrogates[stage]) + 1

(* C30.  Surrogate.utility(score) returns a PRNG draw in [0, 1), consuming  *)
(* exactly one draw from the seeded PRNG, whenever good or bad is empty;    *)
(* when both are non-empty it consumes no draw and returns                  *)
(* parzen(score, good) / (parzen(score, bad) + 1e-6); it never modifies     *)
(* good or bad.                                                             *)
C30_UtilityDraws == [][UtilityDrawsIffUnfitted]_vars

(* C30 witness: a selection over two stages, one with an unfitted surrogate  *)
(* (its utility a draw) and one with a fitted surrogate (its utility a      *)
(* density ratio above 0), picked by the roulette.                          *)
C30_Witness ==
  \E i \in ByUtility :
    /\ opt[i].pc = "proposer"
    /\ Len(cfg[i].stages) = 2
    /\ \E a, b \in 1..2 :
         /\ Unfitted(opt[i].surrogates[cfg[i].stages[a]])
         /\ ~Unfitted(opt[i].surrogates[cfg[i].stages[b]])
         /\ IsPositive(opt[i].utils[a])
         /\ IsPositive(opt[i].utils[b])
    /\ LastPick(i).mode = "roulette"

\* The optimizers that were given an empty dataset.
WithoutData == {i \in Insts : cfg[i].dataSize = 0}

(* C26.  With an empty dataset every iteration still runs: the Runner is    *)
(* never called, the Evaluator is called once per iteration with an empty   *)
(* outputs list, and whatever it returns is recorded unchanged as the       *)
(* trial's score; the run ends only with max_iterations trials or at the    *)
(* early stop.                                                              *)
C26_EmptyDataset ==
  \A i \in WithoutData :
    /\ CallsOf(i, "runner") = {}
    /\ \A n \in CallsOf(i, "evaluator") : calls[i][n].arg = <<>>
    /\ \A k \in 0..(Len(opt[i].history) - 1) :
         Cardinality({n \in CallsOf(i, "evaluator") : calls[i][n].iter = k}) = 1
    /\ Len(opt[i].history) = Completed(i)
    /\ Len(opt[i].returned) = Len(opt[i].history)
    /\ \A k \in 1..Len(opt[i].history) : opt[i].history[k].score = opt[i].returned[k]
    /\ opt[i].pc = "done" =>
         \/ Len(opt[i].history) = cfg[i].maxIterations
         \/ /\ Len(opt[i].history) > 0
            /\ Ge(opt[i].history[Len(opt[i].history)].score, cfg[i].earlyStopThreshold)

(* C26 witness: a run with an empty dataset ended after three iterations    *)
(* whose evaluator returned NaN, -Infinity and a number.                    *)
C26_Witness ==
  \E i \in WithoutData :
    /\ opt[i].pc = "done"
    /\ Len(opt[i].history) = 3
    /\ opt[i].history[1].score = NaN
    /\ opt[i].history[2].score = NegInf
    /\ IsFinite(opt[i].history[3].score)
    /\ Cardinality(CallsOf(i, "evaluator")) = 3

\* An entry of initial_prompts as C27 normalizes it: a bare string is wrapped, a Prompt is kept.
Wrapped(entry) == IF entry.kind = "string" THEN MkPrompt(entry.instruction) ELSE entry

\* The initial PromptSet as C27 normalizes it.
WrappedSet(initialPrompts) ==
  [stage \in DOMAIN initialPrompts |-> Wrapped(initialPrompts[stage])]

(* C27.  Normalization of initial_prompts: every entry that is a bare       *)
(* string (including the empty string) is wrapped as {instruction: that     *)
(* string, examples: []}; every entry that is already a Prompt is kept as   *)
(* is; the normalized set is what Best starts with and what the Proposer    *)
(* receives as initial_prompts.  Stated for the optimizers constructed     *)
(* with arguments that are no configuration error.                          *)
C27_Normalization ==
  \A i \in Running :
    ~Misconfigured(cfg[i]) =>
      /\ opt[i].startingPrompts = WrappedSet(cfg[i].initialPrompts)
      /\ opt[i].best.iteration < 0 => opt[i].best.prompts = WrappedSet(cfg[i].initialPrompts)
      /\ \A n \in CallsOf(i, "proposer") :
           calls[i][n].arg.initialPrompts = WrappedSet(cfg[i].initialPrompts)

(* C28, as a step property.  The past_attempts of a Proposer call made for  *)
(* stage s has one entry per trial in History at the time of the call,      *)
(* oldest first, entry k being History[k].prompts[s] with History[k].score; *)
(* the trials recorded before the step are still the first trials after it. *)
PastAttemptsMirrorHistory ==
  \A i \in Insts :
    \A n \in (Len(calls[i]) + 1)..Len(calls'[i]) :
      calls'[i][n].op = "proposer" =>
        LET ctx == calls'[i][n].arg
            history == opt'[i].history
        IN  /\ ctx.stageName = opt'[i].stage
            /\ ctx.pastAttempts =
                 [k \in 1..Len(history) |->
                    [prompt |-> history[k].prompts[ctx.stageName], score |-> history[k].score]]
            /\ SubSeq(history, 1, Len(opt[i].history)) = opt[i].history

(* C28.  The past_attempts passed to the Proposer in an iteration that      *)
(* selected stage s has exactly one entry per trial currently in History,   *)
(* in iteration order (oldest first), where entry k is                      *)
(* {prompt: History[k].prompts[s], score: History[k].score}; building it    *)
(* does not modify History.                                                 *)
C28_PastAttempts == [][PastAttemptsMirrorHistory]_vars

(* C28 witness: a Proposer call that received two past attempts with        *)
(* different scores and different prompts for its stage.                    *)
C28_Witness ==
  \E i \in Insts :
    \E n \in CallsOf(i, "proposer") :
      LET past == calls[i][n].arg.pastAttempts
      IN  /\ Len(past) = 2
          /\ past[1].score # past[2].score
          /\ past[1].prompt # past[2].prompt
          /\ Len(cfg[i].stages) > 1

(* C29, as a step property.  A step of an optimizer that draws random       *)
(* numbers draws them from where the stream stood when that optimizer last  *)
(* left it (its constructor's seeding, or its own latest step): nothing     *)
(* else has moved or replaced the generator in between.                     *)
DrawsContinueOwnStream ==
  \A i \in Insts :
    (opt[i].pc # "new" /\ opt'[i] # opt[i] /\ rng'.t # rng.t) => rng.t = opt[i].streamAt

(* C29.  The PRNG stream of an optimizer run is private to that run: the    *)
(* sequence of random draws it consumes (stage picks, exploration           *)
(* utilities, batch samples) is the same as when it runs alone with the     *)
(* same seed, under any interleaving with another optimizer instance being  *)
(* constructed or run.                                                      *)
C29_StreamIsPrivate == [][DrawsContinueOwnStream]_vars

(* ------------------------------ termination ----------------------------- *)

(* A step in which a pending collaborator call of an optimizer returns, or  *)
(* the timer fires that the pending proposer call awaits.                   *)
Returns ==
  \E i \in Insts : \/ LoaderResolves(i)
                   \/ ProposerResolves(i)
                   \/ RetryTimerFires(i)
                   \/ RunnerResolves(i)
                   \/ EvaluatorResolves(i)

\* optimize of optimizer i has been called and has not ended.
InOptimize(i) == opt[i].pc \in {"loader", "proposer", "runner", "evaluator"}

(* A collaborator call is pending.  The steps of Returns have the pc as     *)
(* guard, the proposer's also whether the call awaits its timer (then the   *)
(* timer can fire) or not (then it can resolve), and an outcome for every   *)
(* value the collaborator returns, so this is ENABLED <<Returns>>_vars.     *)
Awaiting == \E i \in Insts : InOptimize(i)

(* Every collaborator call eventually returns: a pending call of the        *)
(* loader, the proposer, the runner or the evaluator does not stay pending  *)
(* for ever.  This is weak fairness of Returns, WF_vars(Returns), written   *)
(* out with Awaiting for ENABLED <<Returns>>_vars.  Constructing an         *)
(* optimizer and calling optimize are the caller's choice and carry no      *)
(* such condition.                                                          *)
CallsReturn == []<>(~Awaiting) \/ []<><<Returns>>_vars

(* The configurations of the runs checked for termination: every stage      *)
(* list, every maxIterations, datasets that are empty, smaller than the     *)
(* batch and larger than it.                                                *)
LiveConfigs ==
  {c \in Configs : /\ c.randomSeed = 42
                    /\ (c.earlyStopThreshold = Num(2) \/ c.openai = "rejects")
                    /\ c.proposer = "contract"
                    /\ c.initialPrompts[c.stages[1]].kind = "string"}

InitLive ==
  /\ cfg \in [{1} -> LiveConfigs]
  /\ rng = [seeded |-> FALSE, t |-> <<0, 0>>]
  /\ opt = [i \in {1} |-> Unbuilt]
  /\ calls = [i \in {1} |-> <<>>]
  /\ result = [i \in {1} |-> Pending]

\* One optimizer whose collaborator calls all return.
SpecLive == InitLive /\ [][Next]_vars /\ CallsReturn

\* The iterations optimizer i has started: one proposer call each.
IterationsStarted(i) == Cardinality(CallsOf(i, "proposer"))

(* optimize of optimizer i has ended with a call of the outputter after at  *)
(* most maxIterations iterations.                                           *)
Terminated(i) ==
  /\ opt[i].pc = "done"
  /\ CallsOf(i, "outputter") = {Len(calls[i])}
  /\ IterationsStarted(i) <= IF cfg[i].maxIterations > 0 THEN cfg[i].maxIterations ELSE 0

(* selectStage and sampleArray have returned in every step that called      *)
(* them: the stage of the iteration is a declared one and the batch holds   *)
(* min(batchSize, |data|) items, at most one per item of the dataset.       *)
SelectionAndSamplingReturn ==
  \A i \in Insts :
    /\ opt[i].pc \in {"proposer", "runner", "evaluator"}
         => opt[i].stage \in Range(cfg[i].stages)
    /\ opt[i].pc \in {"runner", "evaluator"}
         => /\ Len(opt[i].batch) = Min(cfg[i].batchSize, cfg[i].dataSize)
            /\ Len(opt[i].batch) <= Len(opt[i].data)

(* C31.  An optimize run whose collaborator calls all return ends with the  *)
(* call of the Outputter after at most maxIterations iterations; every      *)
(* stage selection and every batch sampling on the way has returned, with   *)
(* an empty dataset and with batchSize above the dataset size too.          *)
C31_Terminates ==
  /\ [] SelectionAndSamplingReturn
  /\ \A i \in {1} : InOptimize(i) ~> Terminated(i)

(* C31 witness: a run over an empty dataset ended after all of its          *)
(* iterations, two or more, none of which reached the target.               *)
C31_Witness ==
  \E i \in Insts :
    /\ Terminated(i)
    /\ cfg[i].dataSize = 0
    /\ cfg[i].batchSize > cfg[i].dataSize
    /\ cfg[i].maxIterations >= 2
    /\ IterationsStarted(i) = cfg[i].maxIterations
    /\ Len(opt[i].history) = cfg[i].maxIterations

(* ---------------------------- executed stages --------------------------- *)

\* The mutated stages of the trials in the History of o: one pick per trial.
TriedIn(o) == {o.picks[k].stage : k \in 1..Len(o.history)}

\* The stages whose surrogate holds at least one observation.
ObservedIn(o) == {stage \in DOMAIN o.surrogates : Held(o.surrogates[stage]) > 0}

(* In this step optimizer i records a trial: the step passes the boundary   *)
(* between two iterations, or between the last iteration and the end.       *)
PassesBoundary(i) == Len(opt'[i].history) = Len(opt[i].history) + 1

(* executedStages at the boundaries and at the normal end.  At the boundary *)
(* a step passes, executedStages is what it was before the step (the trial  *)
(* is recorded without touching it, the next add comes after the boundary)  *)
(* and History and the surrogates are what the step leaves.                 *)
ExecutedAreTriedAtBoundaries(i) ==
  /\ PassesBoundary(i) =>
       /\ Len(opt'[i].picks) >= Len(opt'[i].history)
       /\ opt[i].executedStages = TriedIn(opt'[i])
       /\ opt[i].executedStages = ObservedIn(opt'[i])
  /\ opt'[i].pc = "done" =>
       /\ opt'[i].executedStages = TriedIn(opt'[i])
       /\ opt'[i].executedStages = ObservedIn(opt'[i])

(* C32 as claimed.  executedStages holds exactly the mutated stages of the  *)
(* trials in History, which are the stages whose surrogate has an           *)
(* observation: at every iteration boundary, at the end, and in the state   *)
(* an exception of the Proposer, the Runner or the Evaluator leaves behind. *)
C32_ExecutedAreTried ==
  [][\A i \in Insts :
       /\ ExecutedAreTriedAtBoundaries(i)
       /\ LoopAborts(i) =>
            /\ opt'[i].executedStages = TriedIn(opt'[i])
            /\ opt'[i].executedStages = ObservedIn(opt'[i])]_vars

(* C32 as the code has it.  At every iteration boundary and at the end      *)
(* executedStages holds exactly the mutated stages of the trials in History *)
(* (the stages whose surrogate has an observation).  In the state an        *)
(* exception of the Proposer, the Runner or the Evaluator leaves behind it  *)
(* holds these and the stage picked for the aborted iteration, which has no *)
(* trial: one pick more than trials, and the surrogates as the trials made  *)
(* them.                                                                    *)
C32_ExecutedAreSelected ==
  [][\A i \in Insts :
       /\ ExecutedAreTriedAtBoundaries(i)
       /\ LoopAborts(i) =>
            /\ opt'[i].executedStages = TriedIn(opt'[i]) \cup {opt[i].stage}
            /\ Len(opt'[i].picks) = Len(opt'[i].history) + 1
            /\ opt'[i].picks[Len(opt'[i].picks)].stage = opt[i].stage
            /\ ObservedIn(opt'[i]) = TriedIn(opt'[i])]_vars

(* C32 witness: the run was aborted in its second iteration, whose stage    *)
(* had not been picked before: executedStages holds a stage without trial.  *)
C32_Witness ==
  \E i \in Struck :
    /\ opt[i].raised[1].err.op \in LoopOps
    /\ Len(opt[i].history) = 1
    /\ opt[i].stage \in opt[i].executedStages
    /\ opt[i].stage \notin TriedIn(opt[i])
    /\ TriedIn(opt[i]) # {}

(* --------------------------- unselected stages -------------------------- *)

\* The stages of optimizer i that no iteration has selected so far.
Unselected(i) == Range(cfg[i].stages) \ PickedBy(i, Len(opt[i].picks))

\* TRUE iff the PromptSet has the prompt at the stage.
HasAt(prompts, stage, prompt) == stage \in DOMAIN prompts /\ prompts[stage] = prompt

\* Best as it was when iteration k - 1 (the one of History[k]) began.
BestBefore(i, k) == StrictMaximum(opt[i].history, k - 1, Sentinel(opt[i].startingPrompts))

(* C33.  A stage that no iteration has selected so far has its normalized   *)
(* initial prompt in every Trial of History, in Best and in the PromptSet   *)
(* given to the Outputter; and every Trial differs from the Best it was     *)
(* built from at most at the stage its iteration selected.  Stated for the  *)
(* optimizers constructed with arguments that are no configuration error.   *)
C33_UnselectedKeepInitial ==
  \A i \in Running :
    ~Misconfigured(cfg[i]) =>
      /\ \A stage \in Unselected(i) :
           /\ \A k \in 1..Len(opt[i].history) :
                HasAt(opt[i].history[k].prompts, stage, Wrapped(cfg[i].initialPrompts[stage]))
           /\ HasAt(opt[i].best.prompts, stage, Wrapped(cfg[i].initialPrompts[stage]))
           /\ \A n \in CallsOf(i, "outputter") :
                HasAt(calls[i][n].arg, stage, Wrapped(cfg[i].initialPrompts[stage]))
      /\ \A k \in 1..Len(opt[i].history) :
           \A stage \in Range(cfg[i].stages) \ {opt[i].picks[k].stage} :
             HasAt(opt[i].history[k].prompts, stage, BestBefore(i, k).prompts[stage])

(* ----------------------------------- Edge -------------------------------- *)
(* The single-prompt optimizer Edge (src/unnamed/part_005).  Its runs use    *)
(* the same variables: cfg holds the constructor arguments and the option   *)
(* of fit, opt the fields of the Edge object and the locals of fit, calls   *)
(* the collaborator calls of fit, result the promise fit returned.  Edge    *)
(* never seeds Math.random: its sampleArray draws from the built-in         *)
(* generator, whose every call may return any number of [0, 1).             *)

\* One element of promptHistory.
EdgePrompt(instructions, score) == [instructions |-> instructions, score |-> score]

(* An Edge that has not been constructed.  outputs holds EdgeResults whose  *)
(* prompt is a reference: the index of the element of promptHistory.        *)
(* Besides the fields and the locals it keeps returned, what each evaluator *)
(* call resolved with.                                                      *)
EdgeUnbuilt ==
  [pc |-> "new", promptHistory |-> <<>>, history |-> <<>>, data |-> <<>>, iter |-> 0,
   bestScoreBefore |-> NegInf, batch |-> <<>>, outputs |-> <<>>, returned |-> <<>>]

\* A promise fulfilled with a prompt.
FulfilledWith(prompt) == [state |-> "fulfilled", kind |-> "prompt", value |-> prompt]

(* this.promptHistory.reduce((best, current) => current.score > best ?      *)
(* current.score : best, -Infinity) over promptHistory[1..n].               *)
RECURSIVE BestScoreBefore(_, _)
BestScoreBefore(promptHistory, n) ==
  IF n = 0 THEN NegInf
  ELSE IF Gt(promptHistory[n].score, BestScoreBefore(promptHistory, n - 1))
       THEN promptHistory[n].score
       ELSE BestScoreBefore(promptHistory, n - 1)

(* sampleArray(arr, n) with the built-in Math.random: every batch the while *)
(* loop can produce, one per sequence of indices idx it may draw.           *)
RECURSIVE EdgeSampleLoop(_, _, _)
EdgeSampleLoop(copy, out, n) ==
  IF Len(out) < n /\ Len(copy) > 0
  THEN UNION {EdgeSampleLoop(Splice(copy, idx), Append(out, copy[idx + 1]), n) :
                idx \in 0..(Len(copy) - 1)}
  ELSE {out}

\* The batches sampleArray(this.data, this.opts.batchSize) may return.
EdgeSampleArray(arr, n) == EdgeSampleLoop(arr, <<>>, n)

\* The string the optimizer returns when given a history of n items.
NewInstructions(n) == "new:" \o ToString(n)

(* The index in outputs[1..n] of outputs.reduce((worst, current) =>         *)
(* current.prompt.score < worst.prompt.score ? current : worst), n >= 1;    *)
(* prompt.score is read through the reference, as promptHistory has it now. *)
RECURSIVE WorstOutput(_, _, _)
WorstOutput(outputs, promptHistory, n) ==
  IF n = 1 THEN 1
  ELSE LET worst == WorstOutput(outputs, promptHistory, n - 1)
       IN  IF Gt(promptHistory[outputs[worst].prompt].score,
                 promptHistory[outputs[n].prompt].score)
           THEN n
           ELSE worst

\* The EdgeHistoryItem fit pushes for the worst output.
HistoryItem(output, promptHistory) ==
  [instructions |-> promptHistory[output.prompt].instructions,
   score |-> promptHistory[output.prompt].score,
   prediction |-> output.predicted,
   target |-> output.target]

(* The index in promptHistory[1..n] of this.promptHistory.reduce((best,     *)
(* current) => current.score > best.score ? current : best), n >= 1.        *)
RECURSIVE BestPrompt(_, _)
BestPrompt(promptHistory, n) ==
  IF n = 1 THEN 1
  ELSE LET best == BestPrompt(promptHistory, n - 1)
       IN  IF Gt(promptHistory[n].score, promptHistory[best].score) THEN n ELSE best

\* An optimizer that is asked for a new prompt after every iteration.
AsksOptimizerAlways(iter, maxIterations) == iter < maxIterations

\* The test iter < this.opts.maxIterations - 1 before the optimizer call.
AsksOptimizer(iter, maxIterations) == iter < maxIterations - 1

(* The end of fit: bestPrompt, this.outputter(bestPrompt), return           *)
(* bestPrompt.                                                              *)
FitEnd(o) ==
  LET bestPrompt == o.promptHistory[BestPrompt(o.promptHistory, Len(o.promptHistory))]
  IN  [o |-> [o EXCEPT !.pc = "done"],
       calls |-> <<Call("outputter", o.iter, bestPrompt)>>,
       result |-> FulfilledWith(bestPrompt)]

(* An iteration of fit from bestScoreBefore to its first await, for the     *)
(* batch sampleArray returned: the runner on the first item, or the         *)
(* evaluator when the batch is empty.                                       *)
FitIteration(o, batch) ==
  LET o2 == [o EXCEPT !.bestScoreBefore = BestScoreBefore(o.promptHistory, Len(o.promptHistory)),
                      !.batch = batch,
                      !.outputs = <<>>]
  IN  IF Len(batch) > 0
      THEN [o |-> [o2 EXCEPT !.pc = "runner"],
            calls |-> <<Call("runner", o.iter,
                             [item |-> batch[1], prompt |-> Len(o.promptHistory)])>>,
            result |-> Pending]
      ELSE [o |-> [o2 EXCEPT !.pc = "evaluator"],
            calls |-> <<Call("evaluator", o.iter, <<>>)>>,
            result |-> Pending]

(* The head of the for loop of fit with the locals of o: the steps fit may  *)
(* take up to its next await, or its end.                                   *)
FitLoopHead(c, o) ==
  IF LoopContinues(o.iter, c.maxIterations)
  THEN {FitIteration(o, batch) : batch \in EdgeSampleArray(o.data, c.batchSize)}
  ELSE {FitEnd(o)}

\* The state after a step of Edge i that ends as `step` says.
EdgeBecomes(i, step) ==
  /\ opt' = [opt EXCEPT ![i] = step.o]
  /\ calls' = [calls EXCEPT ![i] = @ \o step.calls]
  /\ result' = [result EXCEPT ![i] = step.result]
  /\ UNCHANGED <<cfg, rng>>

\* new Edge(...): promptHistory starts with the initial prompt at -Infinity.
EdgeConstruct(i) ==
  /\ opt[i].pc = "new"
  /\ opt' = [opt EXCEPT ![i] =
               [EdgeUnbuilt EXCEPT !.pc = "idle",
                                   !.promptHistory = <<EdgePrompt("initial", NegInf)>>]]
  /\ UNCHANGED <<cfg, rng, calls, result>>

\* fit(options) is called: it runs up to `await this.loader()`.
Fit(i) ==
  /\ opt[i].pc = "idle"
  /\ opt' = [opt EXCEPT ![i].pc = "loader"]
  /\ calls' = [calls EXCEPT ![i] = Append(@, Call("loader", -1, <<>>))]
  /\ UNCHANGED <<cfg, rng, result>>

\* The loader resolves: fit stores the data and enters the loop.
FitLoaderResolves(i) ==
  /\ opt[i].pc = "loader"
  /\ \E step \in FitLoopHead(cfg[i], [opt[i] EXCEPT !.data = Items(cfg[i].dataSize), !.iter = 0]) :
       EdgeBecomes(i, step)

\* The EdgeResult fit pushes for an item: the prompt is the last of promptHistory.
EdgeResult(o, item) == [prompt |-> Len(o.promptHistory), predicted |-> item, target |-> item]

\* The runner resolves: its result is pushed; the next item or the evaluator follows.
FitRunnerResolves(i) ==
  /\ opt[i].pc = "runner"
  /\ LET o == opt[i]
         outputs == Append(o.outputs, EdgeResult(o, o.batch[Len(o.outputs) + 1]))
     IN  IF Len(outputs) < Len(o.batch)
         THEN EdgeBecomes(i, [o |-> [o EXCEPT !.outputs = outputs],
                              calls |-> <<Call("runner", o.iter,
                                               [item |-> o.batch[Len(outputs) + 1],
                                                prompt |-> Len(o.promptHistory)])>>,
                              result |-> Pending])
         ELSE EdgeBecomes(i, [o |-> [o EXCEPT !.outputs = outputs, !.pc = "evaluator"],
                              calls |-> <<Call("evaluator", o.iter, outputs)>>,
                              result |-> Pending])

(* outputs.reduce(...) on an empty outputs: reduce of an empty array with   *)
(* no initial value throws a TypeError and fit rejects.                     *)
ReduceOfEmpty(o) ==
  [o |-> [o EXCEPT !.pc = "failed"], calls |-> <<>>,
   result |-> Rejected(Err("TypeError", o.iter))]

(* The rest of an iteration that did not stop early: the history item of    *)
(* the worst output, then the optimizer call, or the next pass of the loop. *)
FitRecords(c, o) ==
  IF Len(o.outputs) = 0
  THEN {ReduceOfEmpty(o)}
  ELSE LET worstOutput == o.outputs[WorstOutput(o.outputs, o.promptHistory, Len(o.outputs))]
           o2 == [o EXCEPT !.history = Append(@, HistoryItem(worstOutput, o.promptHistory))]
       IN  IF AsksOptimizer(o.iter, c.maxIterations)
           THEN {[o |-> [o2 EXCEPT !.pc = "optimizer"],
                  calls |-> <<Call("optimizer", o.iter, o2.history)>>,
                  result |-> Pending]}
           ELSE FitLoopHead(c, [o2 EXCEPT !.iter = @ + 1])

(* The evaluator resolves with a score: it is stored in the last prompt;    *)
(* the loop breaks on an improvement that reaches the target, else the      *)
(* iteration goes on.                                                       *)
FitScored(c, o, score) ==
  LET o2 == [o EXCEPT !.promptHistory[Len(o.promptHistory)].score = score,
                      !.returned = Append(@, score)]
  IN  IF Improves(score, o.bestScoreBefore) /\ ReachedTarget(score, c.earlyStopThreshold)
      THEN {FitEnd(o2)}
      ELSE FitRecords(c, o2)

\* The evaluator resolves with any of the scores it may return.
FitEvaluatorResolves(i) ==
  /\ opt[i].pc = "evaluator"
  /\ \E score \in cfg[i].scores :
       \E step \in FitScored(cfg[i], opt[i], score) : EdgeBecomes(i, step)

(* The optimizer resolves with a string: the new prompt is pushed at        *)
(* -Infinity and the loop goes to its next pass.                            *)
FitOptimizerResolves(i) ==
  /\ opt[i].pc = "optimizer"
  /\ LET o == [opt[i] EXCEPT !.promptHistory =
                               Append(@, EdgePrompt(NewInstructions(Len(opt[i].history)), NegInf)),
                             !.iter = @ + 1]
     IN  \E step \in FitLoopHead(cfg[i], o) : EdgeBecomes(i, step)

(* The pairs <<batchSize, dataset size>> the model gives an Edge: an empty   *)
(* dataset, one smaller than the batch, one that fills it, a larger one.    *)
EdgeSizes == {<<2, 0>>, <<2, 1>>, <<2, 2>>, <<1, 2>>}

(* The arguments of one Edge: maxIterations from 0, the sizes above, an     *)
(* evaluator that may return any score.                                     *)
EdgeConfigs ==
  { [maxIterations |-> maxIterations, batchSize |-> sizes[1], dataSize |-> sizes[2],
     earlyStopThreshold |-> threshold, scores |-> Scores] :
      maxIterations \in 0..MaxIter,
      sizes \in EdgeSizes,
      threshold \in Thresholds }

\* One Edge, not yet constructed; Math.random is the built-in one.
InitEdge ==
  /\ cfg \in [{1} -> EdgeConfigs]
  /\ rng = [seeded |-> FALSE, t |-> <<0, 0>>]
  /\ opt = [i \in {1} |-> EdgeUnbuilt]
  /\ calls = [i \in {1} |-> <<>>]
  /\ result = [i \in {1} |-> Pending]

NextEdge ==
  \/ \E i \in Insts : EdgeConstruct(i)
  \/ \E i \in Insts : Fit(i)
  \/ \E i \in Insts : FitLoaderResolves(i)
  \/ \E i \in Insts : FitRunnerResolves(i)
  \/ \E i \in Insts : FitEvaluatorResolves(i)
  \/ \E i \in Insts : FitOptimizerResolves(i)

SpecEdge == InitEdge /\ [][NextEdge]_vars

(* ------------------------------ Edge: claims ----------------------------- *)

\* The calls of Edge i that concern the prompt promptHistory[k]: runner calls and outputs.
RunsWith(i, k) ==
  {n \in CallsOf(i, "runner") : calls[i][n].arg.prompt = k}

\* The larger of two integers.
Max(a, b) == IF a > b THEN a ELSE b

\* The Edges whose fit has returned normally.
Returned == {i \in Insts : opt[i].pc = "done" /\ result[i].state = "fulfilled"}

(* C34.  fit asks the optimizer for a new prompt only when a further        *)
(* iteration will evaluate it: at most maxIterations - 1 optimizer calls,   *)
(* none in the final iteration, none after an early stop (the Outputter     *)
(* call follows the last evaluation directly); and when fit has returned    *)
(* with maxIterations >= 1, prompt k of promptHistory was run on the batch  *)
(* of iteration k - 1 only and scored by exactly one evaluator call, the    *)
(* k-th, whose result is its score.                                         *)
C34_OptimizerOnlyWhenEvaluated ==
  \A i \in Insts :
    /\ Cardinality(CallsOf(i, "optimizer")) <= Max(cfg[i].maxIterations - 1, 0)
    /\ \A n \in CallsOf(i, "optimizer") : calls[i][n].iter < cfg[i].maxIterations - 1
    /\ \A n \in CallsOf(i, "outputter") :
         n > 1 /\ calls[i][n - 1].op \in {"loader", "evaluator"}
    /\ (i \in Returned /\ cfg[i].maxIterations >= 1) =>
         /\ Cardinality(CallsOf(i, "evaluator")) = Len(opt[i].promptHistory)
         /\ Len(opt[i].returned) = Len(opt[i].promptHistory)
         /\ \A k \in 1..Len(opt[i].promptHistory) :
              /\ opt[i].promptHistory[k].score = opt[i].returned[k]
              /\ Cardinality(RunsWith(i, k)) = Min(cfg[i].batchSize, cfg[i].dataSize)
              /\ \A n \in RunsWith(i, k) : calls[i][n].iter = k - 1
              /\ \A n \in CallsOf(i, "evaluator") :
                   calls[i][n].iter = k - 1 =>
                     \A m \in 1..Len(calls[i][n].arg) : calls[i][n].arg[m].prompt = k

(* C34 witness: fit returned after three iterations without an early stop: *)
(* two optimizer calls, three prompts, each run on a batch of two items.    *)
C34_Witness ==
  \E i \in Returned :
    /\ cfg[i].maxIterations = 3
    /\ Cardinality(CallsOf(i, "optimizer")) = 2
    /\ Len(opt[i].promptHistory) = 3
    /\ Len(opt[i].history) = 3
    /\ Cardinality(CallsOf(i, "runner")) = 6

(* The prompts of promptHistory with the highest score: a score that is a   *)
(* number and that no other score exceeds.                                  *)
Highest(promptHistory) ==
  {k \in 1..Len(promptHistory) :
     /\ ~IsNaN(promptHistory[k].score)
     /\ \A m \in 1..Len(promptHistory) : ~Gt(promptHistory[m].score, promptHistory[k].score)}

\* TRUE iff k is the smallest element of the set of integers.
Earliest(k, set) == k \in set /\ \A m \in set : k <= m

(* C35.  When fit has returned, the Outputter was called exactly once, as   *)
(* the last call, with the prompt fit returned, and that prompt is the      *)
(* earliest of the prompts of promptHistory with the highest score; with    *)
(* maxIterations = 0 it is the initial prompt and the loader and the        *)
(* Outputter are the only calls.                                            *)
C35_ReturnsEarliestHighest ==
  \A i \in Returned :
    /\ CallsOf(i, "outputter") = {Len(calls[i])}
    /\ calls[i][Len(calls[i])].arg = result[i].value
    /\ \E k \in 1..Len(opt[i].promptHistory) : result[i].value = opt[i].promptHistory[k]
    /\ \A k \in 1..Len(opt[i].promptHistory) :
         Earliest(k, Highest(opt[i].promptHistory)) => result[i].value = opt[i].promptHistory[k]
    /\ cfg[i].maxIterations = 0 =>
         /\ result[i].value = EdgePrompt("initial", NegInf)
         /\ Len(calls[i]) = 2

\* The Edges whose fit has passed `await this.loader()`.
Fitting == {i \in Insts : opt[i].pc \in {"runner", "evaluator", "optimizer", "done", "failed"}}

(* C36.  fit stops at the first iteration whose score is >= the early stop  *)
(* threshold: such a score is the last the evaluator returned, fit has      *)
(* returned, the Outputter call follows that evaluation directly (no        *)
(* runner, evaluator or optimizer call after it), history has no item for   *)
(* the iteration, and the prompt evaluated in it is the one returned and    *)
(* given to the Outputter.                                                  *)
C36_StopsAtFirstTarget ==
  \A i \in Fitting :
    \A k \in 1..Len(opt[i].returned) :
      Ge(opt[i].returned[k], cfg[i].earlyStopThreshold) =>
        /\ k = Len(opt[i].returned)
        /\ i \in Returned
        /\ calls[i][Len(calls[i])].op = "outputter"
        /\ calls[i][Len(calls[i]) - 1] = Call("evaluator", k - 1, opt[i].outputs)
        /\ Len(opt[i].history) = k - 1
        /\ Len(opt[i].promptHistory) = k
        /\ result[i].value = opt[i].promptHistory[k]
        /\ calls[i][Len(calls[i])].arg = opt[i].promptHistory[k]

\* The iterations of Edge i whose score is in and that did not stop early.
GoneOn(i) ==
  {k \in 1..Len(opt[i].returned) : ~Ge(opt[i].returned[k], cfg[i].earlyStopThreshold)}

(* C37.  With collaborators that never raise, fit does not fail, whatever   *)
(* the dataset size (an empty dataset gives an empty batch in every         *)
(* iteration): its promise is never rejected, the Outputter is called       *)
(* exactly once, as the last call of a fit that has returned, and history   *)
(* holds exactly one item per iteration that did not stop early, in order.  *)
C37_CompletesForEveryDataset ==
  \A i \in Fitting :
    /\ opt[i].pc # "failed"
    /\ result[i].state # "rejected"
    /\ IF opt[i].pc = "done"
       THEN CallsOf(i, "outputter") = {Len(calls[i])}
       ELSE CallsOf(i, "outputter") = {}
    /\ Len(opt[i].history) = Cardinality(GoneOn(i))
    /\ \A k \in 1..Len(opt[i].history) :
         opt[i].history[k].instructions = opt[i].promptHistory[k].instructions

(* -------------------------------- withBackoff ---------------------------- *)
(* withBackoff(fn, maxRetries, baseDelay) of src/unnamed/part_006, the      *)
(* wrapper of every language model call (structured, src/llm.ts).  Its runs *)
(* use the same variables: cfg holds the arguments, opt the locals of the   *)
(* call (attempt, lastError) with a record of what happened (settled: the   *)
(* fn calls that have resolved or raised; delays: the timers awaited),      *)
(* calls the invocations of fn, result the promise withBackoff returned.    *)

\* The largest maxRetries the model passes.
MaxRetries == 3

\* A withBackoff call that has not been made.
NotCalled ==
  [pc |-> "new", attempt |-> 0, lastError |-> [op |-> "undefined", iter |-> -1],
   settled |-> 0, delays |-> <<>>]

\* What fn may resolve with: a parsed answer, or null (structured's parse failure).
FnResults == {"parsed", "null"}

\* A promise fulfilled with a value of fn.
FulfilledValue(value) == [state |-> "fulfilled", kind |-> "value", value |-> value]

\* A loop that runs while attempt < maxRetries: one attempt too few.
AttemptsExclusive(attempt, maxRetries) == attempt < maxRetries

\* The loop condition attempt <= maxRetries.
Attempts(attempt, maxRetries) == attempt <= maxRetries

\* The test attempt === maxRetries in the catch block.
GivesUp(attempt, maxRetries) == attempt = maxRetries

(* The head of the for loop with the locals of o: the next invocation of    *)
(* fn, or `throw lastError!` after the loop.                                *)
BackoffLoopHead(c, o) ==
  IF Attempts(o.attempt, c.maxRetries)
  THEN [o |-> [o EXCEPT !.pc = "fn"],
        calls |-> <<Call("fn", o.attempt, <<>>)>>,
        result |-> Pending]
  ELSE [o |-> [o EXCEPT !.pc = "failed"], calls |-> <<>>, result |-> Rejected(o.lastError)]

\* withBackoff(fn, maxRetries, baseDelay) is called: it runs up to `await fn()`.
WithBackoff(i) ==
  /\ opt[i].pc = "new"
  /\ EdgeBecomes(i, BackoffLoopHead(cfg[i], [NotCalled EXCEPT !.attempt = 0]))

\* fn resolves: `return await fn()` returns its value.
FnResolves(i) ==
  /\ opt[i].pc = "fn"
  /\ \E value \in FnResults :
       EdgeBecomes(i, [o |-> [opt[i] EXCEPT !.pc = "done", !.settled = @ + 1],
                       calls |-> <<>>,
                       result |-> FulfilledValue(value)])

(* fn raises (it throws, or its promise rejects): the catch block keeps the *)
(* error, rethrows it on the last attempt, else computes the delay with one *)
(* draw of Math.random, the process-wide generator, and awaits the timer.   *)
FnRaises(i) ==
  /\ opt[i].pc = "fn"
  /\ \E how \in Raisings :
       LET c == cfg[i]
           err == [op |-> "fn", iter |-> opt[i].attempt, how |-> how]
           o == [opt[i] EXCEPT !.lastError = err, !.settled = @ + 1]
       IN  IF GivesUp(o.attempt, c.maxRetries)
           THEN EdgeBecomes(i, [o |-> [o EXCEPT !.pc = "failed"], calls |-> <<>>,
                                result |-> Rejected(err)])
           ELSE /\ opt' = [opt EXCEPT ![i] =
                            [o EXCEPT !.pc = "timer",
                                      !.delays = Append(@, Delay(c.baseDelay, o.attempt,
                                                                 Mulberry(rng.t)))]]
                /\ rng' = [rng EXCEPT !.t = NextT(@)]
                /\ UNCHANGED <<cfg, calls, result>>

\* The timer of the backoff fires: attempt++ and the loop goes on.
TimerFires(i) ==
  /\ opt[i].pc = "timer"
  /\ EdgeBecomes(i, BackoffLoopHead(cfg[i], [opt[i] EXCEPT !.attempt = @ + 1]))

\* The arguments of the withBackoff calls: every maxRetries from 0, two base delays.
BackoffConfigs ==
  { [maxRetries |-> maxRetries, baseDelay |-> baseDelay] :
      maxRetries \in 0..MaxRetries, baseDelay \in {1, 1000} }

(* One withBackoff call, not yet made, in a process whose Math.random is    *)
(* the generator the constructor of a MIPROv2 has seeded.                   *)
InitBackoff ==
  /\ cfg \in [{1} -> BackoffConfigs]
  /\ \E seed \in Seeds : rng = [seeded |-> TRUE, t |-> SeedState(seed)]
  /\ opt = [i \in {1} |-> NotCalled]
  /\ calls = [i \in {1} |-> <<>>]
  /\ result = [i \in {1} |-> Pending]

NextBackoff ==
  \/ \E i \in Insts : WithBackoff(i)
  \/ \E i \in Insts : FnResolves(i)
  \/ \E i \in Insts : FnRaises(i)
  \/ \E i \in Insts : TimerFires(i)

SpecBackoff == InitBackoff /\ [][NextBackoff]_vars

(* C38.  withBackoff invokes fn strictly sequentially and at most           *)
(* maxRetries + 1 times: the n-th invocation is attempt n - 1 and is made   *)
(* when all earlier ones have settled; when fn resolves, withBackoff        *)
(* returns that value and fn is not invoked again; withBackoff throws only  *)
(* after maxRetries + 1 failed attempts, and then the error of the last.    *)
C38_RetriesThenRethrows ==
  \A i \in Insts :
    /\ Len(calls[i]) <= cfg[i].maxRetries + 1
    /\ \A n \in 1..Len(calls[i]) : calls[i][n] = Call("fn", n - 1, <<>>)
    /\ Len(calls[i]) - opt[i].settled = IF opt[i].pc = "fn" THEN 1 ELSE 0
    /\ opt[i].pc \in {"fn", "timer"} => result[i] = Pending
    /\ opt[i].pc = "done" =>
         /\ result[i].state = "fulfilled"
         /\ result[i].value \in FnResults
         /\ Len(opt[i].delays) = Len(calls[i]) - 1
    /\ opt[i].pc = "failed" =>
         /\ Len(calls[i]) = cfg[i].maxRetries + 1
         /\ Len(opt[i].delays) = cfg[i].maxRetries
         /\ result[i].state = "rejected"
         /\ result[i].value.op = "fn"
         /\ result[i].value.iter = cfg[i].maxRetries

(* A call with maxRetries >= 2 whose maxRetries + 1 attempts all failed: it  *)
(* has thrown the error of the last attempt.                                *)
C38_Witness ==
  \E i \in Insts :
    /\ opt[i].pc = "failed"
    /\ cfg[i].maxRetries >= 2
    /\ Len(calls[i]) = cfg[i].maxRetries + 1
    /\ result[i] = Rejected(opt[i].lastError)
    /\ opt[i].lastError.iter = cfg[i].maxRetries

====
